---- MODULE Spec2Model ----
(***************************************************************************)
(* Contract-enforced task orchestration (app/utils/pddl):                  *)
(*   - EnhancedPDDLPlanner._generate_plan / _find_ready_tasks, the greedy  *)
(*     ready-set scheduler, one loop iteration per action (Spec);          *)
(*   - ContractValidator, the input / output contract checks, as operators *)
(*     applied to bounded tasks and value maps (SpecValidate);             *)
(*   - TaskExecutionManager.prepare_execution_context / execute_task, one  *)
(*     action per call, the code generator and the sandbox as callees      *)
(*     that return or raise (SpecExec);                                    *)
(*   - the STRIPS domain PDDLGenerator.generate_domain emits, as a         *)
(*     transition system over the facts generate_problem emits             *)
(*     (SpecDomain);                                                       *)
(*   - the same scheduler loop, one statement per action (SpecStatements); *)
(*   - PlanningState construction, model_post_init and the scheduler's     *)
(*     private copy (SpecConstruct);                                       *)
(*   - the construction paths of a Task in TaskBuilder and in              *)
(*     _create_planning_state_from_parsed_data (SpecBuild).                *)
(***************************************************************************)
EXTENDS Integers, Sequences, FiniteSets, TLC

VARIABLES
    state,          \* the PlanningState handed to _generate_plan (the caller's)
    goal_arg,       \* the goal_tasks argument: <<list>>, or <<>> for None
    goal_tasks,     \* the local goal_tasks after the default is applied
    working_state,  \* the private copy _generate_plan works on
    plan,           \* the list of step records built so far
    iteration,      \* the local loop counter
    max_iterations, \* the local iteration budget
    pc,             \* position of the running call
    vtask,          \* validator: the task (id and contract) being validated
    vmap,           \* validator: the value map (inputs or outputs)
    vresult,        \* validator: what the last validation call returned
    etask,          \* executor: the Task handed to the execution manager
    context,        \* executor: the ExecutionContext of the task
    ecalls,         \* executor: the callee calls the last execute_task made
    eresult,        \* executor: what each execute_task call returned, in order
    eworld,         \* executor: completed_tasks and the resources the task holds
    problem,        \* domain: the objects and goal of the emitted problem
    facts,          \* domain: the ground atoms that hold
    btask,          \* builder: the Task last built or modified, if any
    bresult         \* builder: the last TaskBuilder call and how it ended

planVars == <<state, goal_arg, goal_tasks, working_state, plan, iteration,
              max_iterations, pc>>
valVars  == <<vtask, vmap, vresult>>
execVars == <<etask, context, ecalls, eresult, eworld>>
domVars  == <<problem, facts>>
buildVars == <<btask, bresult>>
vars     == <<state, goal_arg, goal_tasks, working_state, plan, iteration,
              max_iterations, pc, vtask, vmap, vresult,
              etask, context, ecalls, eresult, eworld, problem, facts,
              btask, bresult>>

(***************************************************************************)
(* Bounds of the model                                                     *)
(***************************************************************************)
MaxDuration == 2        \* uniform task durations range over 1..MaxDuration
MaxTime == 1            \* the initial current_time ranges over 0..MaxTime
MaxRules == 2           \* validation_rules of a generated spec: up to MaxRules

None == "None"

(***************************************************************************)
(* Python list helpers                                                     *)
(***************************************************************************)
\* x in lst
InList(x, lst) == \E i \in 1..Len(lst) : lst[i] = x

\* all(x in lst for x in xs)
AllIn(xs, lst) == \A i \in 1..Len(xs) : InList(xs[i], lst)

\* the set of entries of a list
Elems(lst) == {lst[i] : i \in 1..Len(lst)}

(***************************************************************************)
(* TaskStatus (pddl_classes.py): the members the planner inputs range over *)
(***************************************************************************)
PENDING == "pending"
READY == "ready"
BLOCKED == "blocked"
IN_PROGRESS == "in_progress"
COMPLETED == "completed"
FAILED == "failed"

(***************************************************************************)
(* The planning inputs                                                     *)
(***************************************************************************)
TaskIds == {"A", "B", "C"}
\* insertion order of the tasks dict: list(state.tasks.keys())
TaskOrder == <<"A", "B", "C">>
ResourceIds == {"r1", "r2"}

\* dependency lists: none, chain, cycle, self, unknown id, several
DepChoices ==
    [A : {<<>>, <<"B">>, <<"A">>},
     B : {<<>>, <<"A">>, <<"X">>},
     C : {<<>>, <<"B">>, <<"A", "B">>}]

\* required_resources of the three tasks
ReqChoices ==
    {[A |-> <<>>, B |-> <<>>, C |-> <<>>],
     [A |-> <<"r1">>, B |-> <<"r2">>, C |-> <<"r1", "r2">>]}

AvailChoices == {<<"r1", "r2">>, <<"r1">>, <<>>}

StatusChoices ==
    {[A |-> PENDING, B |-> PENDING, C |-> PENDING],
     [A |-> FAILED, B |-> PENDING, C |-> PENDING],
     [A |-> PENDING, B |-> COMPLETED, C |-> PENDING]}

\* duration_hours (Field(gt=0)): uniform 1..MaxDuration, or 1, 2, 3
DurationChoices ==
    {[t \in TaskIds |-> d] : d \in 1..MaxDuration}
        \cup {[A |-> 1, B |-> 2, C |-> 3]}

\* goal lists: every duplicate-free list of task ids, and two with duplicates
Perms(S) ==
    {s \in [1..Cardinality(S) -> S] :
        \A i, j \in 1..Cardinality(S) : i # j => s[i] # s[j]}

GoalChoices ==
    UNION {Perms(S) : S \in SUBSET TaskIds}
        \cup {<<"A", "A">>, <<"B", "A", "B">>}

CompletedChoices == {<<>>, <<"A">>, <<"C", "X">>}

EmptyState ==
    [tasks |-> <<>>, completed_tasks |-> <<>>, current_time |-> 0,
     available_resources |-> <<>>]

\* Task (pddl_classes.py), the fields the planner reads
MkTask(status, deps, req, dur) ==
    [status |-> status, dependencies |-> deps, required_resources |-> req,
     duration_hours |-> dur]

\* PlanningState (pddl_classes.py), the fields the planner reads and writes
MkState(tasks, completed, time, avail) ==
    [tasks |-> tasks, completed_tasks |-> completed, current_time |-> time,
     available_resources |-> avail]

(***************************************************************************)
(* EnhancedPDDLPlanner._find_ready_tasks                                   *)
(***************************************************************************)
\* variant: the dependency test is left out
DepsSatisfied_Unchecked(st, task) == TRUE

DepsSatisfied(st, task) == AllIn(task.dependencies, st.completed_tasks)

\* variant: the resource test is left out
ResourcesAvailable_Unchecked(st, task) == TRUE

ResourcesAvailable(st, task) ==
    AllIn(task.required_resources, st.available_resources)

\* variant: the status test asks for READY instead of PENDING
IsReady_StatusReady(st, task_id) ==
    /\ ~InList(task_id, st.completed_tasks)
    /\ st.tasks[task_id].status = READY
    /\ DepsSatisfied(st, st.tasks[task_id])
    /\ ResourcesAvailable(st, st.tasks[task_id])

IsReady(st, task_id) ==
    /\ ~InList(task_id, st.completed_tasks)
    /\ st.tasks[task_id].status = PENDING
    /\ DepsSatisfied(st, st.tasks[task_id])
    /\ ResourcesAvailable(st, st.tasks[task_id])

\* variant: the ready list is built in reverse goal order
FindReadyTasks_Reversed(st, goals) ==
    LET ready == SelectSeq(goals, LAMBDA tid : IsReady(st, tid))
    IN  [i \in 1..Len(ready) |-> ready[Len(ready) + 1 - i]]

FindReadyTasks(st, goals) == SelectSeq(goals, LAMBDA tid : IsReady(st, tid))

(***************************************************************************)
(* EnhancedPDDLPlanner._generate_plan                                      *)
(***************************************************************************)
\* variant: the error step lists the whole goal list
RemainingTasks_WholeGoal(st, goals) == goals

\* remaining_tasks of the error step
RemainingTasks(st, goals) ==
    SelectSeq(goals, LAMBDA tid : ~InList(tid, st.completed_tasks))

ErrorStep(st, goals) ==
    [action |-> "error", message |-> RemainingTasks(st, goals),
     time |-> st.current_time]

ExecuteStep(st, task_id) ==
    [action |-> "execute_task", task_id |-> task_id,
     duration |-> st.tasks[task_id].duration_hours,
     start_time |-> st.current_time,
     end_time |-> st.current_time + st.tasks[task_id].duration_hours,
     resources_used |-> st.tasks[task_id].required_resources]

\* variant: the logical clock is not advanced
SimulateExecution_ClockKept(st, task_id) ==
    [st EXCEPT !.tasks[task_id].status = COMPLETED,
               !.completed_tasks = Append(@, task_id)]

\* variant: the task's status is not written
SimulateExecution_StatusKept(st, task_id) ==
    [st EXCEPT !.completed_tasks = Append(@, task_id),
               !.current_time = @ + st.tasks[task_id].duration_hours]

\* "Simulate task execution": status, completed_tasks, current_time
SimulateExecution(st, task_id) ==
    [st EXCEPT !.tasks[task_id].status = COMPLETED,
               !.completed_tasks = Append(@, task_id),
               !.current_time = @ + st.tasks[task_id].duration_hours]

\* the while condition
LoopCondition ==
    /\ Len(working_state.completed_tasks) < Len(goal_tasks)
    /\ iteration < max_iterations

\* entry: default goal list, empty plan, private copy, iteration budget
PlanEnter ==
    /\ pc = "start"
    /\ goal_tasks' = IF goal_arg = <<>> THEN TaskOrder ELSE goal_arg[1]
    /\ plan' = <<>>
    /\ working_state' = state
    /\ max_iterations' = Cardinality(DOMAIN state.tasks) * 2
    /\ iteration' = 0
    /\ pc' = "loop"
    /\ UNCHANGED <<state, goal_arg, valVars, execVars, domVars,
                   buildVars>>

\* variant: an empty ready set skips the iteration instead of ending the run
PlanStuck_NoBreak ==
    /\ pc = "loop"
    /\ LoopCondition
    /\ FindReadyTasks(working_state, goal_tasks) = <<>>
    /\ UNCHANGED vars

\* an iteration whose ready set is empty: error step, break, return plan
PlanStuck ==
    /\ pc = "loop"
    /\ LoopCondition
    /\ FindReadyTasks(working_state, goal_tasks) = <<>>
    /\ plan' = Append(plan, ErrorStep(working_state, goal_tasks))
    /\ pc' = "done"
    /\ UNCHANGED <<state, goal_arg, goal_tasks, working_state, iteration,
                   max_iterations, valVars, execVars, domVars,
                   buildVars>>

\* variant: no private copy, the simulation writes the caller's state too
PlanExecute_OnCallerState ==
    /\ pc = "loop"
    /\ LoopCondition
    /\ FindReadyTasks(working_state, goal_tasks) # <<>>
    /\ LET task_id == FindReadyTasks(working_state, goal_tasks)[1]
       IN  /\ plan' = Append(plan, ExecuteStep(working_state, task_id))
           /\ working_state' = SimulateExecution(working_state, task_id)
           /\ state' = SimulateExecution(working_state, task_id)
    /\ iteration' = iteration + 1
    /\ UNCHANGED <<goal_arg, goal_tasks, max_iterations, pc, valVars,
                   execVars, domVars,
                   buildVars>>

\* an iteration that executes the first ready task
PlanExecute ==
    /\ pc = "loop"
    /\ LoopCondition
    /\ FindReadyTasks(working_state, goal_tasks) # <<>>
    /\ LET task_id == FindReadyTasks(working_state, goal_tasks)[1]
       IN  /\ plan' = Append(plan, ExecuteStep(working_state, task_id))
           /\ working_state' = SimulateExecution(working_state, task_id)
    /\ iteration' = iteration + 1
    /\ UNCHANGED <<state, goal_arg, goal_tasks, max_iterations, pc, valVars,
                   execVars, domVars,
                   buildVars>>

\* the while condition is false: return plan
PlanReturn ==
    /\ pc = "loop"
    /\ ~LoopCondition
    /\ pc' = "done"
    /\ UNCHANGED <<state, goal_arg, goal_tasks, working_state, plan,
                   iteration, max_iterations, valVars, execVars, domVars,
                   buildVars>>

ValIdle == /\ vtask = None /\ vmap = None /\ vresult = None

ExecIdle ==
    /\ etask = None /\ context = None /\ ecalls = <<>> /\ eresult = <<>>
    /\ eworld = None

DomIdle == /\ problem = None /\ facts = {}

BuildIdle == /\ btask = <<>> /\ bresult = None

Init ==
    /\ \E deps \in DepChoices, req \in ReqChoices, st \in StatusChoices,
          dur \in DurationChoices, avail \in AvailChoices,
          completed \in CompletedChoices, time \in 0..MaxTime :
            state = MkState(
                [t \in TaskIds |-> MkTask(st[t], deps[t], req[t], dur[t])],
                completed, time, avail)
    /\ goal_arg \in {<<g>> : g \in GoalChoices} \cup {<<>>}
    /\ goal_tasks = <<>>
    /\ working_state = EmptyState
    /\ plan = <<>>
    /\ iteration = 0
    /\ max_iterations = 0
    /\ pc = "start"
    /\ ValIdle
    /\ ExecIdle
    /\ DomIdle
    /\ BuildIdle

Next == PlanEnter \/ PlanStuck \/ PlanExecute \/ PlanReturn

Spec == Init /\ [][Next]_vars

\* the planning loop is a sequential loop with no suspension point: a call
\* that can take a step takes it
FairSpec == Spec /\ WF_vars(Next)

(***************************************************************************)
(* Plan vocabulary used by the properties                                  *)
(***************************************************************************)
IsExecute(step) == step.action = "execute_task"
IsError(step) == step.action = "error"

\* positions of the execute_task steps of a plan
ExecutePositions(p) == {i \in 1..Len(p) : IsExecute(p[i])}
ErrorPositions(p) == {i \in 1..Len(p) : IsError(p[i])}

\* the goal tasks that are not in completed_tasks of a state
UncompletedGoals(st, goals) ==
    {g \in Elems(goals) : g \notin Elems(st.completed_tasks)}

\* the caller's state is the linear chain: C depends on B depends on A,
\* every task pending, nothing completed, every required resource available
IsChain ==
    /\ state.tasks["A"].dependencies = <<>>
    /\ state.tasks["B"].dependencies = <<"A">>
    /\ state.tasks["C"].dependencies = <<"B">>
    /\ \A t \in TaskIds :
         /\ state.tasks[t].status = PENDING
         /\ Elems(state.tasks[t].required_resources)
                \subseteq Elems(state.available_resources)
    /\ state.completed_tasks = <<>>

\* C1: every execute_task step of a task comes after an execute_task step of
\* each of its dependencies that was not already in completed_tasks of the
\* initial state; a finished run on the chain A, B, C whose goal list holds
\* the three tasks in any order has the steps A, B, C in this order.
C1_DependenciesFirst ==
    /\ \A i \in ExecutePositions(plan) :
         \A d \in Elems(state.tasks[plan[i].task_id].dependencies) :
            \/ d \in Elems(state.completed_tasks)
            \/ \E j \in 1..(i - 1) : IsExecute(plan[j]) /\ plan[j].task_id = d
    /\ (pc = "done" /\ IsChain /\ Elems(goal_tasks) = TaskIds)
         => /\ Len(plan) = 3
            /\ \A i \in 1..3 : IsExecute(plan[i])
            /\ <<plan[1].task_id, plan[2].task_id, plan[3].task_id>>
                   = <<"A", "B", "C">>

C1_Witness ==
    /\ pc = "done"
    /\ IsChain
    /\ goal_tasks = <<"C", "B", "A">>
    /\ Len(plan) = 3
    /\ plan[3].task_id = "C"

\* C2: when a planning run ends, every goal task is in completed_tasks of
\* the working state, or the plan holds exactly one error step, its last.
C2_CompleteOrError ==
    pc = "done" =>
        \/ UncompletedGoals(working_state, goal_tasks) = {}
        \/ ErrorPositions(plan) = {Len(plan)} /\ plan # <<>>

\* C3: an iteration with an empty ready set and an uncompleted goal task
\* appends one error step that lists exactly the uncompleted goal tasks at
\* the current logical time and ends the run; no step is appended after an
\* error step and no plan holds two error steps.
C3_StuckGivesOneError ==
    [][ /\ ( /\ pc = "loop"
             /\ LoopCondition
             /\ FindReadyTasks(working_state, goal_tasks) = <<>>
             /\ UncompletedGoals(working_state, goal_tasks) # {} )
          => /\ Len(plan') = Len(plan) + 1
             /\ SubSeq(plan', 1, Len(plan)) = plan
             /\ IsError(plan'[Len(plan')])
             /\ Elems(plan'[Len(plan')].message)
                    = UncompletedGoals(working_state, goal_tasks)
             /\ plan'[Len(plan')].time = working_state.current_time
             /\ pc' = "done"
        /\ (plan # <<>> /\ IsError(plan[Len(plan)])) => plan' = plan
        /\ \A i \in ErrorPositions(plan') : i = Len(plan') /\ pc' = "done"
      ]_vars

C3_Witness ==
    /\ pc = "done"
    /\ Len(plan) = 2
    /\ IsExecute(plan[1])
    /\ IsError(plan[2])
    /\ plan[2].message # <<>>

\* the goal tasks are at least two, nothing is completed, and each goal task
\* requires a resource that is not in available_resources
AllGoalsLackResource ==
    /\ Cardinality(Elems(goal_tasks)) >= 2
    /\ state.completed_tasks = <<>>
    /\ \A g \in Elems(goal_tasks) :
         \E r \in Elems(state.tasks[g].required_resources) :
            r \notin Elems(state.available_resources)

C5_ContiguousTimes ==
    /\ \A i \in ExecutePositions(plan) :
         /\ plan[i].end_time
                = plan[i].start_time + state.tasks[plan[i].task_id].duration_hours
         /\ plan[i].end_time > plan[i].start_time
         /\ IF i = 1 THEN plan[i].start_time = state.current_time
            ELSE /\ IsExecute(plan[i - 1])
                 /\ plan[i].start_time = plan[i - 1].end_time
    /\ pc # "start" =>
         IF ExecutePositions(plan) = {}
         THEN working_state.current_time = state.current_time
         ELSE \E i \in ExecutePositions(plan) :
                /\ \A j \in ExecutePositions(plan) : j <= i
                /\ working_state.current_time = plan[i].end_time

C5_Witness ==
    /\ pc = "done"
    /\ state.current_time = 1
    /\ Len(plan) = 3
    /\ IsExecute(plan[3])
    /\ plan[1].duration # plan[2].duration
    /\ plan[3].end_time = 7

\* C6: the task of a new execute_task step is, at that iteration, in the
\* goal list, not in completed_tasks, pending, with every required resource
\* in available_resources; no step of a plan is for a task that was not
\* pending at the start or that requires a resource that is not available.
C6_OnlyReadyTasksRun ==
    [][ /\ (plan' # plan /\ IsExecute(plan'[Len(plan')]))
          => LET t == plan'[Len(plan')].task_id
             IN  /\ t \in Elems(goal_tasks)
                 /\ t \notin Elems(working_state.completed_tasks)
                 /\ working_state.tasks[t].status = PENDING
                 /\ \A r \in Elems(working_state.tasks[t].required_resources) :
                       r \in Elems(working_state.available_resources)
        /\ \A i \in ExecutePositions(plan') :
             /\ state.tasks[plan'[i].task_id].status = PENDING
             /\ \A r \in Elems(state.tasks[plan'[i].task_id].required_resources) :
                   r \in Elems(state.available_resources)
      ]_vars

C6_Witness ==
    /\ pc = "done"
    /\ goal_tasks = <<"B", "A">>
    /\ state.completed_tasks = <<>>
    /\ state.tasks["B"].required_resources = <<"r2">>
    /\ state.available_resources = <<"r1">>
    /\ Len(plan) = 2
    /\ IsExecute(plan[1])
    /\ plan[1].task_id = "A"
    /\ IsError(plan[2])

(***************************************************************************)
(* Python values, as far as ContractValidator looks at them                *)
(***************************************************************************)
PyString(s) == [type |-> "str", s |-> s]
PyInteger(n) == [type |-> "int", n |-> n]
PyBool(b) == [type |-> "bool", b |-> b]
\* a float with one decimal digit, kept as its number of tenths
PyFloat(tenths) == [type |-> "float", tenths |-> tenths]
PyNone == [type |-> "NoneType"]
\* a dict keeps its keys in insertion order
PyDict(keys, vals) == [type |-> "dict", keys |-> keys, vals |-> vals]
PyList(items) == [type |-> "list", items |-> items]

\* s[i - 1:] and s[:i - 1] of a string (positions from 1)
StrFrom(s, i) == SubSeq(s, i, Len(s))
StrUpTo(s, i) == SubSeq(s, 1, i - 1)

\* s.startswith(prefix)
StartsWith(s, prefix) ==
    /\ Len(prefix) <= Len(s)
    /\ SubSeq(s, 1, Len(prefix)) = prefix

\* the positions at which sub occurs in s
Occurrences(s, sub) ==
    {i \in 1..(Len(s) - Len(sub) + 1) : SubSeq(s, i, i + Len(sub) - 1) = sub}

\* sub in s
Contains(s, sub) == Occurrences(s, sub) # {}

\* s.find(sub) as a position from 1; 0 when sub does not occur
Find(s, sub) ==
    IF Occurrences(s, sub) = {} THEN 0
    ELSE CHOOSE i \in Occurrences(s, sub) :
            \A j \in Occurrences(s, sub) : i <= j

\* s.split(sep)[1] when sep occurs in s: the text between the first
\* occurrence of sep and the next one (or the end of s)
SplitSecond(s, sep) ==
    LET rest == StrFrom(s, Find(s, sep) + Len(sep))
    IN  IF Find(rest, sep) = 0 THEN rest ELSE StrUpTo(rest, Find(rest, sep))

RECURSIVE LStrip(_)
LStrip(s) ==
    IF s # "" /\ SubSeq(s, 1, 1) = " " THEN LStrip(StrFrom(s, 2)) ELSE s

RECURSIVE RStrip(_)
RStrip(s) ==
    IF s # "" /\ SubSeq(s, Len(s), Len(s)) = " "
    THEN RStrip(StrUpTo(s, Len(s))) ELSE s

\* s.strip()
Strip(s) == RStrip(LStrip(s))

Digits == <<"0", "1", "2", "3", "4", "5", "6", "7", "8", "9">>

IsDigit(c) == \E d \in 1..10 : Digits[d] = c

DigitValue(c) == (CHOOSE d \in 1..10 : Digits[d] = c) - 1

IsDigits(s) ==
    /\ s # ""
    /\ \A i \in 1..Len(s) : IsDigit(SubSeq(s, i, i))

RECURSIVE DigitsValue(_)
DigitsValue(s) ==
    IF s = "" THEN 0
    ELSE 10 * DigitsValue(StrUpTo(s, Len(s)))
            + DigitValue(SubSeq(s, Len(s), Len(s)))

\* int(s) of a stripped string: an optional sign and decimal digits;
\* anything else raises ValueError
PyInt(s) ==
    LET signed == s # "" /\ SubSeq(s, 1, 1) \in {"+", "-"}
        digits == IF signed THEN StrFrom(s, 2) ELSE s
    IN  IF ~IsDigits(digits) THEN [raised |-> TRUE, value |-> 0]
        ELSE [raised |-> FALSE,
              value |-> IF signed /\ SubSeq(s, 1, 1) = "-"
                        THEN 0 - DigitsValue(digits)
                        ELSE DigitsValue(digits)]

\* str(n) of an int
IntStr(n) == IF n < 0 THEN "-" \o ToString(0 - n) ELSE ToString(n)

\* str(x) of a float with one decimal digit
FloatStr(tenths) ==
    IF tenths < 0
    THEN "-" \o ToString((0 - tenths) \div 10) \o "." \o ToString((0 - tenths) % 10)
    ELSE ToString(tenths \div 10) \o "." \o ToString(tenths % 10)

RECURSIVE PyRepr(_)
RECURSIVE ReprItems(_, _)
RECURSIVE ReprEntries(_, _, _)

\* ", ".join(repr(x) for x in items[i - 1:])
ReprItems(items, i) ==
    IF i > Len(items) THEN ""
    ELSE PyRepr(items[i])
            \o (IF i < Len(items) THEN ", " ELSE "")
            \o ReprItems(items, i + 1)

\* ", ".join(repr(k) + ": " + repr(v)) over the entries from position i
ReprEntries(keys, vals, i) ==
    IF i > Len(keys) THEN ""
    ELSE "'" \o keys[i] \o "': " \o PyRepr(vals[i])
            \o (IF i < Len(keys) THEN ", " ELSE "")
            \o ReprEntries(keys, vals, i + 1)

\* repr(value)
PyRepr(v) ==
    CASE v.type = "str" -> "'" \o v.s \o "'"
      [] v.type = "int" -> IntStr(v.n)
      [] v.type = "bool" -> IF v.b THEN "True" ELSE "False"
      [] v.type = "float" -> FloatStr(v.tenths)
      [] v.type = "NoneType" -> "None"
      [] v.type = "dict" -> "{" \o ReprEntries(v.keys, v.vals, 1) \o "}"
      [] v.type = "list" -> "[" \o ReprItems(v.items, 1) \o "]"

\* str(value)
PyStr(v) == IF v.type = "str" THEN v.s ELSE PyRepr(v)

\* bool(value)
Truthy(v) ==
    CASE v.type = "str" -> v.s # ""
      [] v.type = "int" -> v.n # 0
      [] v.type = "bool" -> v.b
      [] v.type = "float" -> v.tenths # 0
      [] v.type = "NoneType" -> FALSE
      [] v.type = "dict" -> v.keys # <<>>
      [] v.type = "list" -> v.items # <<>>

\* isinstance(value, int): bool is a subclass of int
IsInstanceInt(v) == v.type \in {"int", "bool"}

\* isinstance(value, (int, float)) and value > 0
IsPositiveNumber(v) ==
    CASE v.type = "int" -> v.n > 0
      [] v.type = "bool" -> v.b
      [] v.type = "float" -> v.tenths > 0
      [] OTHER -> FALSE

\* the paths for which os.path.exists is true
ExistingPaths == {"/etc/hosts"}

(***************************************************************************)
(* ContractValidator                                                       *)
(***************************************************************************)
\* a call either returns a value or raises: [raised, value]
Returned(v) == [raised |-> FALSE, value |-> v]
Raised == [raised |-> TRUE, value |-> FALSE]

\* ContractValidator._validate_data_type: the per-type predicate table;
\* a DataType without an entry accepts every value
ValidateDataType(value, expected_type) ==
    CASE expected_type = "string" -> value.type = "str"
      [] expected_type = "integer" -> IsInstanceInt(value)
      [] expected_type = "boolean" -> value.type = "bool"
      [] expected_type = "json" -> value.type \in {"dict", "list"}
      [] expected_type = "file" ->
            value.type = "str" /\ value.s \in ExistingPaths
      [] expected_type = "url" ->
            /\ value.type = "str"
            /\ StartsWith(value.s, "http://") \/ StartsWith(value.s, "https://")
      [] expected_type = "database_record" ->
            value.type = "dict" /\ "id" \in Elems(value.keys)
      [] OTHER -> TRUE

\* variant: "length >" compares with >= instead of >
RuleBody_AtLeast(value, rule) ==
    IF Contains(rule, "length >")
    THEN LET min_length == PyInt(Strip(SplitSecond(rule, "length >")))
         IN  IF min_length.raised THEN Raised
             ELSE Returned(Len(PyStr(value)) >= min_length.value)
    ELSE IF Contains(rule, "not empty") THEN Returned(Truthy(value))
    ELSE IF Contains(rule, "positive") THEN Returned(IsPositiveNumber(value))
    ELSE Returned(TRUE)

\* ContractValidator._validate_rule, the body of the try block
RuleBody(value, rule) ==
    IF Contains(rule, "length >")
    THEN LET min_length == PyInt(Strip(SplitSecond(rule, "length >")))
         IN  IF min_length.raised THEN Raised
             ELSE Returned(Len(PyStr(value)) > min_length.value)
    ELSE IF Contains(rule, "not empty") THEN Returned(Truthy(value))
    ELSE IF Contains(rule, "positive") THEN Returned(IsPositiveNumber(value))
    ELSE Returned(TRUE)

\* variant: no except clause, the exception leaves _validate_rule
ValidateRule_NoExcept(value, rule) == RuleBody(value, rule)

\* ContractValidator._validate_rule: "except: return False"
ValidateRule(value, rule) ==
    IF RuleBody(value, rule).raised THEN Returned(FALSE)
    ELSE RuleBody(value, rule)

\* "Custom validation rules" of validate_task_inputs: the violations of the
\* rules from position i on; an exception of _validate_rule leaves the call
RECURSIVE InputRuleErrors(_, _, _, _)
InputRuleErrors(name, value, rules, i) ==
    IF i > Len(rules) THEN Returned(<<>>)
    ELSE LET ok == ValidateRule(value, rules[i])
             rest == InputRuleErrors(name, value, rules, i + 1)
         IN  IF ok.raised \/ rest.raised THEN Raised
             ELSE Returned(
                    (IF ~ok.value
                     THEN <<"Input '" \o name
                                \o "' failed validation rule: " \o rules[i]>>
                     ELSE <<>>) \o rest.value)

\* variant: a missing required input is skipped without a violation
InputErrors_MissingSkipped(task, inputs, input_contract) ==
    IF input_contract.name \notin DOMAIN inputs THEN Returned(<<>>)
    ELSE LET value == inputs[input_contract.name]
             rule_errors == InputRuleErrors(input_contract.name, value,
                                input_contract.validation_rules, 1)
         IN  IF rule_errors.raised THEN Raised
             ELSE Returned(
                    (IF ~ValidateDataType(value, input_contract.data_type)
                     THEN <<"Input '" \o input_contract.name
                                \o "' has wrong type. Expected "
                                \o input_contract.data_type>>
                     ELSE <<>>) \o rule_errors.value)

\* validate_task_inputs, one pass of "for input_contract in ..."
InputErrors(task, inputs, input_contract) ==
    IF input_contract.required /\ input_contract.name \notin DOMAIN inputs
    THEN Returned(<<"Required input '" \o input_contract.name
                        \o "' missing for task " \o task.id>>)
    ELSE IF input_contract.name \in DOMAIN inputs
    THEN LET value == inputs[input_contract.name]
             rule_errors == InputRuleErrors(input_contract.name, value,
                                input_contract.validation_rules, 1)
         IN  IF rule_errors.raised THEN Raised
             ELSE Returned(
                    (IF ~ValidateDataType(value, input_contract.data_type)
                     THEN <<"Input '" \o input_contract.name
                                \o "' has wrong type. Expected "
                                \o input_contract.data_type>>
                     ELSE <<>>) \o rule_errors.value)
    ELSE Returned(<<>>)

\* "Custom validation rules" of validate_task_outputs
RECURSIVE OutputRuleErrors(_, _, _, _)
OutputRuleErrors(name, value, rules, i) ==
    IF i > Len(rules) THEN Returned(<<>>)
    ELSE LET ok == ValidateRule(value, rules[i])
             rest == OutputRuleErrors(name, value, rules, i + 1)
         IN  IF ok.raised \/ rest.raised THEN Raised
             ELSE Returned(
                    (IF ~ok.value
                     THEN <<"Output '" \o name
                                \o "' failed validation rule: " \o rules[i]>>
                     ELSE <<>>) \o rest.value)

\* variant: the type of an output is not checked
OutputErrors_TypeUnchecked(task, outputs, output_contract) ==
    IF output_contract.name \notin DOMAIN outputs
    THEN Returned(<<"Required output '" \o output_contract.name
                        \o "' missing for task " \o task.id>>)
    ELSE OutputRuleErrors(output_contract.name,
                          outputs[output_contract.name],
                          output_contract.validation_rules, 1)

\* validate_task_outputs, one pass of "for output_contract in ..."
OutputErrors(task, outputs, output_contract) ==
    IF output_contract.name \notin DOMAIN outputs
    THEN Returned(<<"Required output '" \o output_contract.name
                        \o "' missing for task " \o task.id>>)
    ELSE LET value == outputs[output_contract.name]
             rule_errors == OutputRuleErrors(output_contract.name, value,
                                output_contract.validation_rules, 1)
         IN  IF rule_errors.raised THEN Raised
             ELSE Returned(
                    (IF ~ValidateDataType(value, output_contract.data_type)
                     THEN <<"Output '" \o output_contract.name
                                \o "' has wrong type. Expected "
                                \o output_contract.data_type>>
                     ELSE <<>>) \o rule_errors.value)

RECURSIVE InputErrorsFrom(_, _, _)
InputErrorsFrom(task, inputs, i) ==
    IF i > Len(task.contract.inputs) THEN Returned(<<>>)
    ELSE LET first == InputErrors(task, inputs, task.contract.inputs[i])
             rest == InputErrorsFrom(task, inputs, i + 1)
         IN  IF first.raised \/ rest.raised THEN Raised
             ELSE Returned(first.value \o rest.value)

RECURSIVE OutputErrorsFrom(_, _, _)
OutputErrorsFrom(task, outputs, i) ==
    IF i > Len(task.contract.outputs) THEN Returned(<<>>)
    ELSE LET first == OutputErrors(task, outputs, task.contract.outputs[i])
             rest == OutputErrorsFrom(task, outputs, i + 1)
         IN  IF first.raised \/ rest.raised THEN Raised
             ELSE Returned(first.value \o rest.value)

\* ContractValidator.validate_task_inputs
validate_task_inputs(task, inputs) == InputErrorsFrom(task, inputs, 1)

\* ContractValidator.validate_task_outputs
validate_task_outputs(task, outputs) == OutputErrorsFrom(task, outputs, 1)

(***************************************************************************)
(* The validation inputs: contracts, tasks, values, value maps             *)
(***************************************************************************)
\* InputContract / OutputContract / TaskContract / Task (pddl_classes.py)
InputContract(name, data_type, required, rules) ==
    [name |-> name, data_type |-> data_type, required |-> required,
     validation_rules |-> rules]

OutputContract(name, data_type, rules) ==
    [name |-> name, data_type |-> data_type, validation_rules |-> rules]

ContractedTask(id, inputs, outputs) ==
    [id |-> id,
     contract |-> [task_id |-> id, inputs |-> inputs, outputs |-> outputs]]

\* the OutputContract with the name, type and rules of an InputContract
AsOutput(ic) == OutputContract(ic.name, ic.data_type, ic.validation_rules)

\* DataType values: the seven with a type predicate, and one without
DataTypes ==
    {"string", "integer", "boolean", "json", "file", "url",
     "database_record", "float"}

Rules ==
    {"length > 3", "not empty", "positive", "has username",
     "password length > 8", "length > abc"}

RuleLists == UNION {[1..n -> Rules] : n \in 0..MaxRules}

UserData ==
    PyDict(<<"username", "password">>, <<PyString("t"), PyString("short")>>)

Values ==
    {PyString(""), PyString("abc"), PyString("abcd"), PyString("https://x.io"),
     PyString("securepass123"), PyString("/etc/hosts"),
     PyInteger(0), PyInteger(5), PyInteger(-3), PyInteger(12345),
     PyBool(TRUE), PyBool(FALSE), PyFloat(15), PyFloat(0), PyNone,
     PyDict(<<>>, <<>>), PyDict(<<"id">>, <<PyInteger(7)>>), UserData,
     PyList(<<>>), PyList(<<PyInteger(1)>>)}

FewValues == {PyString(""), PyString("abcd"), PyDict(<<>>, <<>>), UserData}

\* create_sample_contracted_tasks: the contract of auth_system
AuthSystem ==
    ContractedTask("auth_system",
        <<InputContract("user_data", "json", TRUE,
              <<"has username", "has password", "password length > 8">>),
          InputContract("auth_config", "json", TRUE,
              <<"has jwt_secret", "has expiry_time">>)>>,
        <<OutputContract("auth_token", "string",
              <<"not empty", "is_jwt_format">>),
          OutputContract("user_id", "integer", <<"positive">>)>>)

\* value maps handed to the validator for auth_system
AuthMaps ==
    {[user_data |-> UserData],
     [user_data |-> PyDict(<<"username">>, <<PyString("test")>>),
      auth_config |-> PyDict(<<"jwt_secret">>, <<PyString("")>>)],
     [user_data |-> PyDict(<<>>, <<>>), auth_config |-> PyList(<<>>)],
     [auth_token |-> PyString("eyJhbGci"), user_id |-> PyInteger(12345)],
     [auth_token |-> PyString(""), user_id |-> PyBool(TRUE)],
     [user_id |-> PyInteger(0)]}

\* tasks with one declared input x and the same spec as declared output
OneSpecTasks ==
    {ContractedTask("t1", <<ic>>, <<AsOutput(ic)>>) :
        ic \in {InputContract("x", dt, req, rules) :
                    dt \in DataTypes, req \in BOOLEAN, rules \in RuleLists}}

\* tasks with two declared inputs x and y, and the same specs as outputs
TwoSpecTasks ==
    {ContractedTask("t2", <<x, y>>, <<AsOutput(x), AsOutput(y)>>) :
        x \in {InputContract("x", dt, req, rules) :
                  dt \in {"string", "json"}, req \in BOOLEAN,
                  rules \in {<<>>, <<"not empty">>}},
        y \in {InputContract("y", "json", TRUE, <<"length > 3">>)}}

SpecNames(task) ==
    {task.contract.inputs[i].name : i \in 1..Len(task.contract.inputs)}
        \cup {task.contract.outputs[i].name : i \in 1..Len(task.contract.outputs)}

\* the value maps a task is validated against
MapsFor(task) ==
    IF task.id = "auth_system" THEN AuthMaps
    ELSE UNION {[S -> IF task.id = "t1" THEN Values ELSE FewValues] :
                    S \in SUBSET SpecNames(task)}

NoCall == [call |-> "none", raised |-> FALSE, value |-> <<>>]

CallResult(call, result) ==
    [call |-> call, raised |-> result.raised, value |-> result.value]

PlanIdle ==
    /\ state = EmptyState
    /\ goal_arg = <<>>
    /\ goal_tasks = <<>>
    /\ working_state = EmptyState
    /\ plan = <<>>
    /\ iteration = 0
    /\ max_iterations = 0
    /\ pc = "idle"

\* a call of validate_task_inputs(vtask, vmap)
ValidateInputs ==
    /\ vresult = NoCall
    /\ vresult' = CallResult("inputs", validate_task_inputs(vtask, vmap))
    /\ UNCHANGED <<vtask, vmap, planVars, execVars, domVars,
                   buildVars>>

\* a call of validate_task_outputs(vtask, vmap)
ValidateOutputs ==
    /\ vresult = NoCall
    /\ vresult' = CallResult("outputs", validate_task_outputs(vtask, vmap))
    /\ UNCHANGED <<vtask, vmap, planVars, execVars, domVars,
                   buildVars>>

InitValidate ==
    /\ PlanIdle
    /\ vtask \in OneSpecTasks \cup TwoSpecTasks \cup {AuthSystem}
    /\ vmap \in MapsFor(vtask)
    /\ vresult = NoCall
    /\ ExecIdle
    /\ DomIdle
    /\ BuildIdle

NextValidate == ValidateInputs \/ ValidateOutputs

SpecValidate == InitValidate /\ [][NextValidate]_vars

(***************************************************************************)
(* Violation-list vocabulary used by the properties                        *)
(***************************************************************************)
\* the positions of the violations of a list that are about the spec `name`
ViolationsAbout(errors, name) ==
    {k \in 1..Len(errors) :
        \E pre \in {"Input '", "Output '", "Required input '", "Required output '"} :
            StartsWith(errors[k], pre \o name \o "'")}

\* the declared inputs / outputs of the task under validation
DeclaredInputs == Elems(vtask.contract.inputs)
DeclaredOutputs == Elems(vtask.contract.outputs)

\* the specs the last call has gone through, and the label of its messages
CheckedSpecs ==
    IF vresult.call = "inputs" THEN DeclaredInputs ELSE DeclaredOutputs
CheckedLabel == IF vresult.call = "inputs" THEN "Input" ELSE "Output"

\* the failed-rule violation of a rule of a spec is in the returned list
RuleReported(spec, rule) ==
    (CheckedLabel \o " '" \o spec.name \o "' failed validation rule: " \o rule)
        \in Elems(vresult.value)

\* C7: for every required InputSpec whose name is not a key of the map, the
\* list returned by validate_task_inputs holds exactly one violation about
\* it, the missing-input one; auth_system given only user_data =
\* {username: 't', password: 'short'} gets exactly the one violation that
\* auth_config is missing.
C7_MissingRequiredInput ==
    vresult.call = "inputs" =>
        /\ ~vresult.raised
        /\ \A ic \in DeclaredInputs :
             (ic.required /\ ic.name \notin DOMAIN vmap) =>
                \E k \in 1..Len(vresult.value) :
                   /\ ViolationsAbout(vresult.value, ic.name) = {k}
                   /\ vresult.value[k] =
                        "Required input '" \o ic.name
                            \o "' missing for task " \o vtask.id
        /\ (vtask = AuthSystem /\ vmap = [user_data |-> UserData]) =>
              vresult.value =
                <<"Required input 'auth_config' missing for task auth_system">>

C7_Witness ==
    /\ vresult.call = "inputs"
    /\ vtask = AuthSystem
    /\ vmap = [user_data |-> UserData]
    /\ vresult.value =
         <<"Required input 'auth_config' missing for task auth_system">>

\* the rules of the model that have one of the three forms
\* 'length > N', 'not empty', 'positive', with N a number
ExactFormRules == {"length > 3", "not empty", "positive"}

\* the rules of the model that hold none of the texts 'length >',
\* 'not empty', 'positive'
AdvisoryRules ==
    {"has username", "has password", "has jwt_secret", "has expiry_time",
     "is_jwt_format"}

\* the test of a rule of one of the three forms fails on a value
ExactFormFails(value, rule) ==
    CASE rule = "length > 3" -> ~(Len(PyStr(value)) > 3)
      [] rule = "not empty" -> ~Truthy(value)
      [] rule = "positive" -> ~IsPositiveNumber(value)

AsInputViolations(errors, name) ==
    LET about == SelectSeq(errors,
                    LAMBDA m : StartsWith(m, "Output '" \o name \o "'"))
    IN  [k \in 1..Len(about) |-> "Input" \o StrFrom(about[k], 7)]

\* C9: validate_task_outputs reports a missing-output violation for every
\* declared output that is not a key of the map; for a declared output that
\* is present it reports exactly the wrong-type and failed-rule violations
\* validate_task_inputs reports for an input spec with the same type, rules
\* and value; the list is empty exactly when every declared output is
\* present, well typed and passes its rules.
C9_OutputsLikeInputs ==
    vresult.call = "outputs" =>
        /\ ~vresult.raised
        /\ \A oc \in DeclaredOutputs :
             IF oc.name \notin DOMAIN vmap
             THEN \E k \in 1..Len(vresult.value) :
                    /\ ViolationsAbout(vresult.value, oc.name) = {k}
                    /\ vresult.value[k] =
                         "Required output '" \o oc.name
                             \o "' missing for task " \o vtask.id
             ELSE AsInputViolations(vresult.value, oc.name)
                    = validate_task_inputs(
                        ContractedTask(vtask.id,
                            <<InputContract(oc.name, oc.data_type, TRUE,
                                            oc.validation_rules)>>, <<>>),
                        vmap).value
        /\ vresult.value = <<>>
             <=> \A oc \in DeclaredOutputs :
                    /\ oc.name \in DOMAIN vmap
                    /\ ValidateDataType(vmap[oc.name], oc.data_type)
                    /\ \A rule \in Elems(oc.validation_rules) :
                          ValidateRule(vmap[oc.name], rule).value

C9_Witness ==
    /\ vresult.call = "outputs"
    /\ vtask = AuthSystem
    /\ vmap = [user_id |-> PyInteger(0)]
    /\ vresult.value =
         <<"Required output 'auth_token' missing for task auth_system",
           "Output 'user_id' failed validation rule: positive">>

\* C10: a validation call returns a list and raises nothing, whatever is
\* missing, wrongly typed or failing; a 'length > abc' rule on a present
\* value is in the list as a failed rule; the task and the value map are
\* the same after the call as before.
C10_ReturnsNeverRaises ==
    [][ vresult' # vresult =>
          /\ ~vresult'.raised
          /\ vtask' = vtask
          /\ vmap' = vmap
          /\ \A spec \in (IF vresult'.call = "inputs" THEN DeclaredInputs
                          ELSE DeclaredOutputs) :
                (/\ spec.name \in DOMAIN vmap
                 /\ "length > abc" \in Elems(spec.validation_rules))
                => ((IF vresult'.call = "inputs" THEN "Input" ELSE "Output")
                        \o " '" \o spec.name
                        \o "' failed validation rule: length > abc")
                     \in Elems(vresult'.value)
      ]_vars

C10_Witness ==
    /\ vresult.call = "outputs"
    /\ ~vresult.raised
    /\ vtask.id = "t1"
    /\ vtask.contract.outputs[1].data_type = "url"
    /\ vtask.contract.outputs[1].validation_rules = <<"length > abc", "positive">>
    /\ vmap = [x |-> PyInteger(5)]
    /\ vresult.value =
         <<"Output 'x' has wrong type. Expected url",
           "Output 'x' failed validation rule: length > abc">>

(***************************************************************************)
(* TaskExecutionManager (task_execution_manager.py)                        *)
(***************************************************************************)
\* execute_task calls made with one task and one context
MaxCalls == 2

\* an exception carrying str(e)
RaisedWith(message) == [raised |-> TRUE, value |-> message]

\* the empty dict {}
EmptyDict == <<>>

\* ExecutionContext (pddl_classes.py)
ExecutionContext(task_id, inputs, outputs, errors, execution_trace) ==
    [task_id |-> task_id, inputs |-> inputs, outputs |-> outputs,
     errors |-> errors, execution_trace |-> execution_trace]

\* no context has been prepared yet
NoContext == ExecutionContext(None, EmptyDict, EmptyDict, <<>>, <<>>)

\* Task (pddl_classes.py), the fields the execution manager can reach;
\* generated_code is <<>> for None, <<code>> otherwise
ExecTask(ct, deps, status, code, environment) ==
    [id |-> ct.id, contract |-> ct.contract, dependencies |-> deps,
     status |-> status, generated_code |-> code,
     execution_environment |-> environment]

\* prepare_execution_context, from the ExecutionContext(...) call on, errors
\* being what validate_task_inputs returned
PreparedContext(task, inputs, errors) ==
    IF errors.raised THEN Raised
    ELSE Returned(ExecutionContext(task.id, inputs, EmptyDict,
                                   errors.value, <<>>))

\* TaskExecutionManager.prepare_execution_context (inputs=None becomes {})
prepare_execution_context(task, inputs) ==
    PreparedContext(task, inputs, validate_task_inputs(task, inputs))

\* one call a callee received, with what it returned or raised
Call(fn, outcome) ==
    [fn |-> fn, raised |-> outcome.raised, value |-> outcome.value]

\* what execute_task leaves behind: the task, the context, the calls it made
\* and its own return value
Outcome(task, ctx, calls, result) ==
    [task |-> task, context |-> ctx, calls |-> calls, result |-> result]

\* a validator call as a callee call: an exception carries its text
ValidatorOutcome(errors) ==
    IF errors.raised THEN RaisedWith("validation failed") ELSE errors

\* ContractValidator.validate_task_outputs on whatever the result carried as
\* outputs: `name not in None` is a TypeError
ValidateOutputsCall(task, outputs) ==
    IF outputs = PyNone
    THEN IF task.contract.outputs = <<>> THEN Returned(<<>>)
         ELSE RaisedWith("argument of type 'NoneType' is not iterable")
    ELSE ValidatorOutcome(validate_task_outputs(task, outputs))

ExceptionResult_Propagated(e) == RaisedWith(e)

\* except Exception as e: return {"success": False, "errors": [...]}
ExceptionResult(e) ==
    Returned([success |-> FALSE, errors |-> <<"Execution error: " \o e>>])

\* execute_task, from `if output_errors:` to the return
ReturnResult(task, ctx, calls, output_errors) ==
    IF output_errors.raised
    THEN Outcome(task, ctx,
             Append(calls, Call("validate_task_outputs", output_errors)),
             ExceptionResult(output_errors.value))
    ELSE Outcome(task, [ctx EXCEPT !.errors = @ \o output_errors.value],
             Append(calls, Call("validate_task_outputs", output_errors)),
             Returned([success |-> ctx.errors \o output_errors.value = <<>>,
                       outputs |-> ctx.outputs,
                       errors |-> ctx.errors \o output_errors.value,
                       trace |-> ctx.execution_trace]))

ValidateAndReturn_Unvalidated(task, ctx, calls) ==
    ReturnResult(task, ctx, calls, Returned(<<>>))

\* execute_task, from the output validation to the return
ValidateAndReturn(task, ctx, calls) ==
    ReturnResult(task, ctx, calls, ValidateOutputsCall(task, ctx.outputs))

\* execute_task, the capture of what the sandbox returned
CaptureResult(task, ctx, calls, result) ==
    IF result = PyNone
    THEN Outcome(task, ctx, calls,
             ExceptionResult("'NoneType' object has no attribute 'get'"))
    ELSE LET ctx1 ==
                 [ctx EXCEPT
                    !.outputs = IF "outputs" \in DOMAIN result
                                THEN result.outputs ELSE EmptyDict,
                    !.execution_trace = IF "trace" \in DOMAIN result
                                        THEN @ \o result.trace ELSE @,
                    !.errors = IF "errors" \in DOMAIN result
                               THEN @ \o result.errors ELSE @]
         IN  ValidateAndReturn(task, ctx1, calls)

\* execute_task, the try body: gen and run are what the code generator and
\* the sandbox do when they are called
TryBody(task, ctx, gen, run) ==
    IF task.generated_code = <<>> /\ gen.raised
    THEN Outcome(task, ctx, <<Call("generate_code_with_contract", gen)>>,
             ExceptionResult(gen.value))
    ELSE LET generated == task.generated_code = <<>>
             task1 == IF generated
                      THEN [task EXCEPT !.generated_code = <<gen.value>>]
                      ELSE task
             calls1 == (IF generated
                        THEN <<Call("generate_code_with_contract", gen)>>
                        ELSE <<>>)
                       \o <<Call("_execute_code_in_sandbox", run)>>
         IN  IF run.raised
             THEN Outcome(task1, ctx, calls1, ExceptionResult(run.value))
             ELSE CaptureResult(task1, ctx, calls1, run.value)

execute_task_NoEntryCheck(task, ctx, gen, run) == TryBody(task, ctx, gen, run)

\* TaskExecutionManager.execute_task
execute_task(task, ctx, gen, run) ==
    IF ctx.errors # <<>>
    THEN Outcome(task, ctx, <<>>,
             Returned([success |-> FALSE, errors |-> ctx.errors]))
    ELSE TryBody(task, ctx, gen, run)

(***************************************************************************)
(* BlackBoxExecutor (main.py)                                              *)
(***************************************************************************)
\* repr(s) of a str: double quotes when s has a single quote and no double
\* quote, single quotes otherwise
StrRepr(s) ==
    IF Contains(s, "'") /\ ~Contains(s, "\"") THEN "\"" \o s \o "\""
    ELSE "'" \o s \o "'"

RECURSIVE StrReprItems(_, _)
\* ", ".join(repr(s) for s in errors[i - 1:])
StrReprItems(errors, i) ==
    IF i > Len(errors) THEN ""
    ELSE StrRepr(errors[i])
            \o (IF i < Len(errors) THEN ", " ELSE "")
            \o StrReprItems(errors, i + 1)

\* f"{errors}" of a list of str
ErrorListRepr(errors) == "[" \o StrReprItems(errors, 1) \o "]"

UpperCase == "ABCDEFGHIJKLMNOPQRSTUVWXYZ"
LowerCase == "abcdefghijklmnopqrstuvwxyz"

RECURSIVE FunctionName(_)
\* task.id.lower().replace('-', '_')
FunctionName(id) ==
    IF id = "" THEN ""
    ELSE LET c == SubSeq(id, 1, 1)
             upper == {k \in 1..26 : SubSeq(UpperCase, k, k) = c}
             d == IF c = "-" THEN "_"
                  ELSE IF upper # {}
                       THEN LET k == CHOOSE k \in upper : TRUE
                            IN  SubSeq(LowerCase, k, k)
                       ELSE c
         IN  d \o FunctionName(StrFrom(id, 2))

\* isinstance(result, dict): the maps of the model have no key 'type'
IsDict(value) == "type" \notin DOMAIN value

\* BlackBoxExecutor._execute_python_code: impl is what exec(generated_code)
\* and the call of the function it defines do
execute_python_code(task, impl) ==
    IF task.generated_code = <<>> \/ task.generated_code = <<"">>
    THEN RaisedWith("No generated code for task " \o task.id)
    ELSE IF impl.kind = "exec_raises"
         THEN RaisedWith("Code execution failed: " \o impl.message)
    ELSE IF impl.kind = "undefined"
         THEN RaisedWith("Code execution failed: Generated code must define function '"
                            \o FunctionName(task.id) \o "'")
    ELSE IF impl.kind = "raises"
         THEN RaisedWith("Code execution failed: " \o impl.message)
    ELSE Returned(IF IsDict(impl.value) THEN impl.value
                  ELSE [result |-> impl.value])

\* the generated function was called by _execute_python_code
ImplementationCalls(task, impl) ==
    IF task.generated_code # <<>> /\ task.generated_code # <<"">>
          /\ impl.kind \in {"raises", "returns"}
    THEN <<[fn |-> "implementation", raised |-> impl.kind = "raises",
            value |-> IF impl.kind = "raises" THEN impl.message
                      ELSE impl.value]>>
    ELSE <<>>

\* execute_task, the except clause: record the failure and re-raise
ExecutionFailure(task, ctx, calls, e) ==
    Outcome(task,
        [ctx EXCEPT
            !.errors = Append(@, "Execution failed: " \o e),
            !.execution_trace =
                Append(@, "Task " \o task.id \o " failed: " \o e)],
        calls, RaisedWith(e))

\* variant: the outputs are returned whatever validate_task_outputs found
AfterOutputValidation_Unchecked(task, ctx, calls, outputs, output_errors) ==
    Outcome(task,
        [ctx EXCEPT
            !.outputs = outputs,
            !.execution_trace =
                Append(@, "Task " \o task.id
                    \o " completed successfully with validated outputs")],
        Append(calls, Call("validate_task_outputs", output_errors)),
        Returned(outputs))

\* execute_task, from `if output_errors:` to the return
AfterOutputValidation(task, ctx, calls, outputs, output_errors) ==
    IF output_errors.raised
    THEN ExecutionFailure(task, ctx,
             Append(calls, Call("validate_task_outputs", output_errors)),
             output_errors.value)
    ELSE IF output_errors.value # <<>>
    THEN ExecutionFailure(task,
             [ctx EXCEPT !.errors = @ \o output_errors.value],
             Append(calls, Call("validate_task_outputs", output_errors)),
             "Output validation failed: "
                 \o ErrorListRepr(output_errors.value))
    ELSE Outcome(task,
             [ctx EXCEPT
                 !.outputs = outputs,
                 !.execution_trace =
                     Append(@, "Task " \o task.id
                         \o " completed successfully with validated outputs")],
             Append(calls, Call("validate_task_outputs", output_errors)),
             Returned(outputs))

\* execute_task, after _execute_python_code returned or raised
AfterExecution(task, ctx, calls, outputs) ==
    IF outputs.raised THEN ExecutionFailure(task, ctx, calls, outputs.value)
    ELSE AfterOutputValidation(task, ctx, calls, outputs.value,
             ValidatorOutcome(validate_task_outputs(task, outputs.value)))

\* execute_task, the try body
TryExecution(task, ctx, impl) ==
    IF task.execution_environment # "python"
    THEN ExecutionFailure(task, ctx, <<>>,
             "Execution environment " \o task.execution_environment
                 \o " not supported")
    ELSE AfterExecution(task, ctx, ImplementationCalls(task, impl),
             execute_python_code(task, impl))

\* execute_task, from `if input_errors:` on
AfterInputValidation(task, inputs, ctx, impl, input_errors) ==
    IF input_errors.raised
    THEN Outcome(task, ctx, <<>>, input_errors)
    ELSE IF input_errors.value # <<>>
    THEN Outcome(task, [ctx EXCEPT !.errors = @ \o input_errors.value], <<>>,
             RaisedWith("Input validation failed: "
                            \o ErrorListRepr(input_errors.value)))
    ELSE TryExecution(task,
             [ctx EXCEPT
                 !.inputs = inputs,
                 !.execution_trace =
                     Append(@, "Starting task " \o task.id
                                   \o " with validated inputs")],
             impl)

\* BlackBoxExecutor.execute_task
black_box_execute_task(task, inputs, ctx, impl) ==
    AfterInputValidation(task, inputs, ctx, impl,
        ValidatorOutcome(validate_task_inputs(task, inputs)))

(***************************************************************************)
(* The execution inputs                                                    *)
(***************************************************************************)
\* a task with one required input and one output, and a task with neither
ExecContracts ==
    {ContractedTask("t1",
         <<InputContract("x", "string", TRUE, <<"length > 3">>)>>,
         <<OutputContract("y", "integer", <<"positive">>)>>),
     ContractedTask("t0", <<>>, <<>>)}

ExecInputs(task) ==
    IF task.id = "t1"
    THEN {EmptyDict, [x |-> PyString("abcd")], [x |-> PyString("abc")]}
    ELSE {EmptyDict}

\* the dependencies and status of the task, the completed_tasks of the
\* state and the resources allocated to the task
ExecSituations ==
    {[dependencies |-> <<>>, completed_tasks |-> <<>>,
      status |-> PENDING, allocated |-> {}],
     [dependencies |-> <<"A">>, completed_tasks |-> <<>>,
      status |-> PENDING, allocated |-> {}],
     [dependencies |-> <<"A">>, completed_tasks |-> <<"A">>,
      status |-> IN_PROGRESS, allocated |-> {"r1"}]}

\* ModelClient.generate_code_with_contract returns code or raises
GeneratorOutcomes ==
    {Returned("def t1(inputs): return {'y': 5}"),
     RaisedWith("model unavailable")}

\* a dict entry that is there (<<v>>) or not (<<>>)
Entry(key, opt) == IF opt = <<>> THEN <<>> ELSE key :> opt[1]

\* the result maps of the sandbox: each of outputs, trace, errors is optional
ResultDicts ==
    {Entry("outputs", o) @@ Entry("trace", t) @@ Entry("errors", e) :
        o \in {<<>>, <<EmptyDict>>, <<[y |-> PyInteger(5)]>>,
               <<[y |-> PyInteger(0)]>>, <<[y |-> PyString("abcd")]>>,
               <<PyNone>>},
        t \in {<<>>, <<(<<"step 1">>)>>},
        e \in {<<>>, <<(<<>>)>>, <<(<<"disk full">>)>>}}

\* _execute_code_in_sandbox returns a result map, returns None, or raises
SandboxOutcomes ==
    {Returned(d) : d \in ResultDicts}
        \cup {Returned(PyNone), RaisedWith("division by zero")}

\* what exec(task.generated_code) and the generated function do
ImplementationOutcomes ==
    {[kind |-> "exec_raises", message |-> "invalid syntax"],
     [kind |-> "undefined"],
     [kind |-> "raises", message |-> "division by zero"]}
        \cup {[kind |-> "returns", value |-> v] :
                v \in {[y |-> PyInteger(5)], [y |-> PyInteger(0)],
                       [result |-> PyInteger(5)], PyInteger(5)}}

\* the return value of one call, tagged with the class that was called
ResultOf(by, result) ==
    [by |-> by, raised |-> result.raised, value |-> result.value]

\* a call of prepare_execution_context(etask, inputs)
PrepareExecutionContext ==
    /\ context = NoContext
    /\ \E inputs \in ExecInputs(etask) :
          \E prepared \in {prepare_execution_context(etask, inputs)} :
              /\ ~prepared.raised
              /\ context' = prepared.value
    /\ UNCHANGED <<etask, ecalls, eresult, eworld, planVars, valVars, domVars,
                   buildVars>>

\* a call of execute_task(etask, context)
ExecuteTask ==
    /\ context # NoContext
    /\ Len(eresult) < MaxCalls
    /\ \E gen \in GeneratorOutcomes, run \in SandboxOutcomes :
          \E outcome \in {execute_task(etask, context, gen, run)} :
              /\ etask' = outcome.task
              /\ context' = outcome.context
              /\ ecalls' = outcome.calls
              /\ eresult' = Append(eresult,
                    ResultOf("TaskExecutionManager", outcome.result))
    /\ UNCHANGED <<eworld, planVars, valVars, domVars,
                   buildVars>>

\* a call of BlackBoxExecutor.execute_task(etask, inputs, context)
BlackBoxExecuteTask ==
    /\ context # NoContext
    /\ Len(eresult) < MaxCalls
    /\ \E inputs \in ExecInputs(etask), impl \in ImplementationOutcomes :
          \E outcome \in
                {black_box_execute_task(etask, inputs, context, impl)} :
              /\ etask' = outcome.task
              /\ context' = outcome.context
              /\ ecalls' = outcome.calls
              /\ eresult' = Append(eresult,
                    ResultOf("BlackBoxExecutor", outcome.result))
    /\ UNCHANGED <<eworld, planVars, valVars, domVars,
                   buildVars>>

InitExec ==
    /\ PlanIdle
    /\ ValIdle
    /\ DomIdle
    /\ BuildIdle
    /\ \E ct \in ExecContracts, s \in ExecSituations,
          code \in {<<>>, <<"def t1(inputs): return {}">>},
          environment \in {"python", "bash"} :
            /\ etask = ExecTask(ct, s.dependencies, s.status, code,
                                environment)
            /\ eworld = [completed_tasks |-> s.completed_tasks,
                         allocated |-> s.allocated]
    /\ context = NoContext
    /\ ecalls = <<>>
    /\ eresult = <<>>

NextExec == PrepareExecutionContext \/ ExecuteTask \/ BlackBoxExecuteTask

SpecExec == InitExec /\ [][NextExec]_vars

(***************************************************************************)
(* Vocabulary of the execution claims                                      *)
(***************************************************************************)
\* the step is a call of execute_task
IsExecuteTaskCall ==
    /\ Len(eresult') = Len(eresult) + 1
    /\ eresult'[Len(eresult')].by = "TaskExecutionManager"

\* what the last call of execute_task returned
LastResult == eresult[Len(eresult)]

\* the calls of the last execute_task to one callee
CallsTo(fn) == {j \in 1..Len(ecalls) : ecalls[j].fn = fn}

\* the sandbox was invoked by the last execute_task
SandboxInvoked == CallsTo("_execute_code_in_sandbox") # {}

\* the result map the sandbox handed back in the last execute_task
SandboxResult ==
    ecalls[CHOOSE j \in CallsTo("_execute_code_in_sandbox") : TRUE].value

\* the sandbox was invoked and returned a result map
SandboxReturnedMap ==
    /\ Len(eresult) > 0
    /\ \E j \in CallsTo("_execute_code_in_sandbox") :
          ~ecalls[j].raised /\ ecalls[j].value # PyNone

ReturnedOutputs ==
    IF "outputs" \in DOMAIN SandboxResult THEN SandboxResult.outputs
    ELSE EmptyDict

ReportedErrors ==
    IF "errors" \in DOMAIN SandboxResult THEN SandboxResult.errors ELSE <<>>

(***************************************************************************)
(* C11  A call of execute_task whose context already carries errors       *)
(* returns success false with exactly those errors, calls neither the code *)
(* generator nor the sandbox, and leaves the task's generated_code and the *)
(* context's outputs, trace and errors as they were.                       *)
(***************************************************************************)
C11_ErrorsOnEntryShortCircuit ==
    [][(IsExecuteTaskCall /\ context.errors # <<>>) =>
          /\ eresult'[Len(eresult')] =
                ResultOf("TaskExecutionManager",
                    Returned([success |-> FALSE, errors |-> context.errors]))
          /\ ecalls' = <<>>
          /\ etask'.generated_code = etask.generated_code
          /\ context'.outputs = context.outputs
          /\ context'.execution_trace = context.execution_trace
          /\ context'.errors = context.errors]_vars

\* a second call on a context that the first call left with errors, a trace
\* and outputs
C11_Witness ==
    /\ Len(eresult) = 2
    /\ ecalls = <<>>
    /\ context.errors # <<>>
    /\ context.execution_trace # <<>>
    /\ context.outputs # EmptyDict
    /\ eresult[1].by = "TaskExecutionManager"
    /\ LastResult = ResultOf("TaskExecutionManager",
                        Returned([success |-> FALSE, errors |-> context.errors]))

(***************************************************************************)
(* C12  Every call of execute_task returns a result map with a boolean     *)
(* success and raises nothing; when the code generator, the sandbox or the *)
(* output validation raised, the result is success false with the single   *)
(* error 'Execution error: ' followed by the exception's text.             *)
(***************************************************************************)
C12_AlwaysReturnsResult ==
    \A i \in 1..Len(eresult) :
      eresult[i].by = "TaskExecutionManager" =>
        /\ ~eresult[i].raised
        /\ eresult[i].value.success \in BOOLEAN
        /\ (i = Len(eresult) /\ \E j \in 1..Len(ecalls) : ecalls[j].raised)
              => \E j \in 1..Len(ecalls) :
                    /\ ecalls[j].raised
                    /\ eresult[i].value =
                          [success |-> FALSE,
                           errors |-> <<"Execution error: "
                                          \o ecalls[j].value>>]

\* the output validation raised on outputs that are not a map, after the
\* code generator and the sandbox returned
C12_Witness ==
    /\ Len(eresult) > 0
    /\ LastResult.by = "TaskExecutionManager"
    /\ Len(ecalls) = 3
    /\ ecalls[3].fn = "validate_task_outputs"
    /\ ecalls[3].raised
    /\ ~LastResult.value.success

(***************************************************************************)
(* C13  When the sandbox was invoked and returned a result map, success is *)
(* true exactly when the map reported no errors and validate_task_outputs  *)
(* finds no violation in the returned outputs; a successful result carries *)
(* those outputs, and every violation found is among the result's errors.  *)
(***************************************************************************)
C13_SuccessIffNoErrors ==
    SandboxReturnedMap =>
        \E violations \in {ValidateOutputsCall(etask, ReturnedOutputs)},
           last \in {LastResult.value} :
            IF violations.raised THEN ~last.success
            ELSE /\ last.success <=>
                        (ReportedErrors = <<>> /\ violations.value = <<>>)
                 /\ last.success =>
                        (last.outputs = ReturnedOutputs
                            /\ violations.value = <<>>)
                 /\ AllIn(violations.value, last.errors)

\* both directions happen: a success on t1, whose contract declares y
C13_Witness ==
    /\ SandboxReturnedMap
    /\ etask.id = "t1"
    /\ LastResult.value.success
    /\ LastResult.value.outputs = [y |-> PyInteger(5)]

(***************************************************************************)
(* C14  After an execution in which the implementation raised or its       *)
(* outputs violate the contract, the task's status is failed and no        *)
(* resource remains allocated to the task.                                 *)
(***************************************************************************)
ExecutionFailed ==
    /\ Len(eresult) > 0
    /\ \/ \E j \in CallsTo("_execute_code_in_sandbox") : ecalls[j].raised
       \/ \E j \in CallsTo("implementation") : ecalls[j].raised
       \/ \E j \in CallsTo("validate_task_outputs") :
             ~ecalls[j].raised /\ ecalls[j].value # <<>>

C14_FailureMarksFailedAndReleases ==
    ExecutionFailed => (etask.status = FAILED /\ eworld.allocated = {})

(***************************************************************************)
(* C18  The sandbox is invoked for a task only when every dependency of    *)
(* the task is in completed_tasks.                                         *)
(***************************************************************************)
C18_InvokedAfterDependencies ==
    (SandboxInvoked \/ CallsTo("implementation") # {})
        => AllIn(etask.dependencies, eworld.completed_tasks)

(***************************************************************************)
(* PDDLGenerator.generate_problem (main.py): the objects, the :init list   *)
(* and the goal of the emitted problem. A ground atom is a tuple, its      *)
(* predicate first; init_predicates is the list the code appends to, one   *)
(* entry per emitted line.                                                 *)
(***************************************************************************)
\* the names of the contract inputs and outputs of the three tasks
DomainContracts ==
    [A |-> [inputs |-> <<>>, outputs |-> <<"o1">>],
     B |-> [inputs |-> <<"i1">>, outputs |-> <<>>],
     C |-> [inputs |-> <<>>, outputs |-> <<>>]]

\* the concatenation of a list of lists
RECURSIVE Flatten(_)
Flatten(lists) ==
    IF lists = <<>> THEN <<>> ELSE Head(lists) \o Flatten(Tail(lists))

\* state.tasks.keys(), in insertion order
TaskKeys(st) == SelectSeq(TaskOrder, LAMBDA t : t \in DOMAIN st.tasks)

\* the status lines of one task; a status outside the five emits nothing
StatusPredicates(task_id, status) ==
    IF status = PENDING THEN <<<<"task-pending", task_id>>>>
    ELSE IF status = READY
         THEN <<<<"task-ready", task_id>>, <<"contract-valid", task_id>>>>
    ELSE IF status = IN_PROGRESS THEN <<<<"task-in-progress", task_id>>>>
    ELSE IF status = COMPLETED THEN <<<<"task-completed", task_id>>>>
    ELSE IF status = FAILED THEN <<<<"task-failed", task_id>>>>
    ELSE <<>>

\* variant: the arguments of depends-on are swapped
DependencyPredicates_Swapped(task_id, task) ==
    [k \in 1..Len(task.dependencies) |->
        <<"depends-on", task.dependencies[k], task_id>>]

\* one depends-on line per entry of task.dependencies
DependencyPredicates(task_id, task) ==
    [k \in 1..Len(task.dependencies) |->
        <<"depends-on", task_id, task.dependencies[k]>>]

\* one requires-resource line per entry of task.required_resources
ResourcePredicates(task_id, task) ==
    [k \in 1..Len(task.required_resources) |->
        <<"requires-resource", task_id, task.required_resources[k]>>]

\* the has-input, has-output and contract-valid lines of one task
ContractPredicates(task_id, contract) ==
    [k \in 1..Len(contract.inputs) |->
        <<"has-input", task_id, contract.inputs[k]>>]
      \o [k \in 1..Len(contract.outputs) |->
            <<"has-output", task_id, contract.outputs[k]>>]
      \o <<<<"contract-valid", task_id>>>>

\* init_predicates: five loops, each appending in order
InitPredicates(st, contracts) ==
    LET keys == TaskKeys(st)
    IN  Flatten([i \in 1..Len(keys) |->
                    StatusPredicates(keys[i], st.tasks[keys[i]].status)])
          \o Flatten([i \in 1..Len(keys) |->
                    DependencyPredicates(keys[i], st.tasks[keys[i]])])
          \o Flatten([i \in 1..Len(keys) |->
                    ResourcePredicates(keys[i], st.tasks[keys[i]])])
          \o Flatten([i \in 1..Len(keys) |->
                    ContractPredicates(keys[i], contracts[keys[i]])])
          \o [k \in 1..Len(st.available_resources) |->
                <<"resource-available", st.available_resources[k]>>]

\* generate_problem(state, goal_tasks) with goal_tasks <<>> for None
generate_problem(st, contracts, resources, goals) ==
    [tasks |-> DOMAIN st.tasks,
     resources |-> resources,
     datatypes |-> UNION {Elems(contracts[t].inputs)
                            \cup Elems(contracts[t].outputs) :
                                t \in DOMAIN st.tasks},
     init |-> InitPredicates(st, contracts),
     goal |-> {<<"task-completed", t>> :
                 t \in IF goals = <<>> THEN DOMAIN st.tasks
                       ELSE Elems(goals[1])}]

\* every object of the problem
Objects(p) == p.tasks \cup p.resources \cup p.datatypes

\* the condition facts of the domain; generate_problem emits none of them
ConditionFacts(p) ==
    {<<"precondition-met", t, c>> : t \in p.tasks, c \in Objects(p)}
        \cup {<<"postcondition-satisfied", t, c>> :
                t \in p.tasks, c \in Objects(p)}

(***************************************************************************)
(* PDDLGenerator.generate_domain (main.py): each action as a precondition  *)
(* on a fact set and an effect, deletions before additions, conditional    *)
(* effects read in the state before the action.                            *)
(***************************************************************************)
ValidateInputsPre(p, fs, t) ==
    /\ <<"task-ready", t>> \in fs
    /\ \A input \in p.datatypes :
          <<"has-input", t, input>> \in fs
              => <<"precondition-met", t, input>> \in fs

ValidateInputsEffect(p, fs, t) == fs \cup {<<"input-validated", t>>}

StartTaskPre_ResourcesUnchecked(p, fs, t) ==
    /\ <<"task-ready", t>> \in fs
    /\ <<"input-validated", t>> \in fs
    /\ <<"contract-valid", t>> \in fs

StartTaskPre(p, fs, t) ==
    /\ <<"task-ready", t>> \in fs
    /\ <<"input-validated", t>> \in fs
    /\ <<"contract-valid", t>> \in fs
    /\ \A r \in p.resources :
          <<"requires-resource", t, r>> \in fs
              => <<"resource-available", r>> \in fs

StartTaskEffect_AvailableKept(p, fs, t) ==
    (fs \ {<<"task-ready", t>>})
        \cup {<<"task-in-progress", t>>}
        \cup {<<"resource-allocated", r, t>> :
                r \in {r \in p.resources :
                          <<"requires-resource", t, r>> \in fs}}

StartTaskEffect(p, fs, t) ==
    (fs \ ({<<"task-ready", t>>}
             \cup {<<"resource-available", r>> :
                     r \in {r \in p.resources :
                               <<"requires-resource", t, r>> \in fs}}))
        \cup {<<"task-in-progress", t>>}
        \cup {<<"resource-allocated", r, t>> :
                r \in {r \in p.resources :
                          <<"requires-resource", t, r>> \in fs}}

CompleteTaskPre(p, fs, t) ==
    /\ <<"task-in-progress", t>> \in fs
    /\ <<"output-validated", t>> \in fs
    /\ \A condition \in Objects(p) :
          <<"postcondition-satisfied", t, condition>> \in fs

CompleteTaskEffect_AllocationKept(p, fs, t) ==
    (fs \ {<<"task-in-progress", t>>})
        \cup {<<"task-completed", t>>}
        \cup {<<"resource-available", r>> :
                r \in {r \in p.resources :
                          <<"resource-allocated", r, t>> \in fs}}

CompleteTaskEffect(p, fs, t) ==
    (fs \ ({<<"task-in-progress", t>>}
             \cup {<<"resource-allocated", r, t>> :
                     r \in {r \in p.resources :
                               <<"resource-allocated", r, t>> \in fs}}))
        \cup {<<"task-completed", t>>}
        \cup {<<"resource-available", r>> :
                r \in {r \in p.resources :
                          <<"resource-allocated", r, t>> \in fs}}

ValidateOutputsPre(p, fs, t) == <<"task-in-progress", t>> \in fs

ValidateOutputsEffect(p, fs, t) ==
    fs \cup {<<"output-validated", t>>}
       \cup {<<"postcondition-satisfied", t, output>> :
               output \in {o \in p.datatypes :
                              <<"has-output", t, o>> \in fs}}

MakeTaskReadyPre(p, fs, t) ==
    /\ <<"task-pending", t>> \in fs
    /\ \A t2 \in p.tasks :
          <<"depends-on", t, t2>> \in fs => <<"task-completed", t2>> \in fs

MakeTaskReadyEffect(p, fs, t) ==
    (fs \ {<<"task-pending", t>>}) \cup {<<"task-ready", t>>}

FailTaskPre(p, fs, t) == <<"task-in-progress", t>> \in fs

FailTaskEffect(p, fs, t) ==
    (fs \ ({<<"task-in-progress", t>>}
             \cup {<<"resource-allocated", r, t>> :
                     r \in {r \in p.resources :
                               <<"resource-allocated", r, t>> \in fs}}))
        \cup {<<"task-failed", t>>}
        \cup {<<"resource-available", r>> :
                r \in {r \in p.resources :
                          <<"resource-allocated", r, t>> \in fs}}

DomainFrame ==
    UNCHANGED <<problem, planVars, valVars, execVars, buildVars>>

ValidateInputsAction ==
    /\ \E t \in problem.tasks :
          /\ ValidateInputsPre(problem, facts, t)
          /\ facts' = ValidateInputsEffect(problem, facts, t)
    /\ DomainFrame

StartTask ==
    /\ \E t \in problem.tasks :
          /\ StartTaskPre(problem, facts, t)
          /\ facts' = StartTaskEffect(problem, facts, t)
    /\ DomainFrame

CompleteTask ==
    /\ \E t \in problem.tasks :
          /\ CompleteTaskPre(problem, facts, t)
          /\ facts' = CompleteTaskEffect(problem, facts, t)
    /\ DomainFrame

ValidateOutputsAction ==
    /\ \E t \in problem.tasks :
          ValidateOutputsPre(problem, facts, t)
              /\ facts' = ValidateOutputsEffect(problem, facts, t)
    /\ DomainFrame

MakeTaskReady ==
    /\ \E t \in problem.tasks :
          /\ MakeTaskReadyPre(problem, facts, t)
          /\ facts' = MakeTaskReadyEffect(problem, facts, t)
    /\ DomainFrame

FailTask ==
    /\ \E t \in problem.tasks :
          /\ FailTaskPre(problem, facts, t)
          /\ facts' = FailTaskEffect(problem, facts, t)
    /\ DomainFrame

(***************************************************************************)
(* The planning states the problem is emitted for                          *)
(***************************************************************************)
DomainDepChoices ==
    {[A |-> <<>>, B |-> <<>>, C |-> <<>>],
     [A |-> <<>>, B |-> <<"A">>, C |-> <<>>],
     [A |-> <<>>, B |-> <<"A">>, C |-> <<"A", "B">>],
     [A |-> <<"A">>, B |-> <<>>, C |-> <<>>],
     [A |-> <<>>, B |-> <<"A", "A">>, C |-> <<"B">>]}

DomainReqChoices ==
    ReqChoices \cup {[A |-> <<"r1">>, B |-> <<"r1">>, C |-> <<"r1", "r2">>]}

DomainStatusChoices ==
    {[A |-> PENDING, B |-> PENDING, C |-> PENDING],
     [A |-> FAILED, B |-> PENDING, C |-> PENDING],
     [A |-> READY, B |-> IN_PROGRESS, C |-> BLOCKED],
     [A |-> COMPLETED, B |-> PENDING, C |-> READY]}

\* the problem of a planning state (state, goal_tasks None), its :init read
\* as a set of facts, as emitted or with the condition facts added
InitDomain ==
    /\ \E deps \in DomainDepChoices, req \in DomainReqChoices,
          st \in DomainStatusChoices, avail \in AvailChoices :
            state = MkState([t \in TaskIds |->
                                MkTask(st[t], deps[t], req[t], 1)],
                            <<>>, 0, avail)
    /\ goal_arg = <<>>
    /\ goal_tasks = <<>>
    /\ working_state = EmptyState
    /\ plan = <<>>
    /\ iteration = 0
    /\ max_iterations = 0
    /\ pc = "idle"
    /\ ValIdle
    /\ ExecIdle
    /\ BuildIdle
    /\ problem = generate_problem(state, DomainContracts, ResourceIds,
                                  goal_arg)
    /\ \E conditions \in BOOLEAN :
          facts = Elems(problem.init)
                    \cup (IF conditions THEN ConditionFacts(problem) ELSE {})

NextDomain ==
    \/ ValidateInputsAction
    \/ StartTask
    \/ CompleteTask
    \/ ValidateOutputsAction
    \/ MakeTaskReady
    \/ FailTask

SpecDomain == InitDomain /\ [][NextDomain]_vars

(***************************************************************************)
(* Vocabulary of the resource claims                                       *)
(***************************************************************************)
\* ResourceManager.reserve(resource_ids, task_id) on an available set and an
\* allocation relation: all of the ids, or nothing
reserve(resource_ids, task_id, available, allocated) ==
    IF resource_ids \subseteq available
    THEN [success |-> TRUE,
          available |-> available \ resource_ids,
          allocated |-> allocated
                          \cup {<<r, task_id>> : r \in resource_ids}]
    ELSE [success |-> FALSE, available |-> available,
          allocated |-> allocated]

\* the available set and the allocations a fact set records
Available(fs) == {r \in ResourceIds : <<"resource-available", r>> \in fs}
Allocated(fs) ==
    {a \in ResourceIds \X TaskIds : <<"resource-allocated", a[1], a[2]>> \in fs}
AllocatedTo(fs, t) == {r \in ResourceIds : <<"resource-allocated", r, t>> \in fs}
Required(t) == {r \in ResourceIds : <<"requires-resource", t, r>> \in facts}

\* the step starts t (start-task), or ends t (complete-task or fail-task)
Started(t) ==
    <<"task-in-progress", t>> \notin facts /\ <<"task-in-progress", t>> \in facts'
Ended(t) ==
    <<"task-in-progress", t>> \in facts /\ <<"task-in-progress", t>> \notin facts'

(***************************************************************************)
(* C15  A reservation is all or nothing: a failed reserve leaves the       *)
(* available set and the allocations as they were, and every start-task    *)
(* step is a successful reserve of the task's required resources: all of   *)
(* them were available, all of them are allocated to the task and none of  *)
(* them is available afterwards.                                           *)
(***************************************************************************)
C15_StartTaskReservesAllOrNothing ==
    [][\A t \in TaskIds :
          /\ \A ids \in SUBSET ResourceIds :
                \E res \in {reserve(ids, t, Available(facts), Allocated(facts))} :
                    ~res.success =>
                        /\ res.available = Available(facts)
                        /\ res.allocated = Allocated(facts)
          /\ Started(t) =>
                \E res \in {reserve(Required(t), t, Available(facts),
                                    Allocated(facts))} :
                    /\ res.success
                    /\ Available(facts') = res.available
                    /\ Allocated(facts') = res.allocated
          /\ ~(Required(t) \subseteq Available(facts)) => ~Started(t)]_vars

\* C holds r1 and r2 after its start, and B, ready and validated, cannot
\* start because r2 is taken
C15_Witness ==
    /\ <<"task-in-progress", "C">> \in facts
    /\ AllocatedTo(facts, "C") = {"r1", "r2"}
    /\ Available(facts) = {}
    /\ <<"task-ready", "B">> \in facts
    /\ <<"input-validated", "B">> \in facts
    /\ Required("B") = {"r2"}

(***************************************************************************)
(* C16  In every reachable state of the emitted domain each resource is    *)
(* allocated to at most one task, and no resource is both available and    *)
(* allocated.                                                              *)
(***************************************************************************)
C16_ExclusiveAllocation ==
    \A r \in ResourceIds :
        /\ Cardinality({t \in TaskIds : <<"resource-allocated", r, t>> \in facts})
              <= 1
        /\ ~(<<"resource-available", r>> \in facts
                /\ \E t \in TaskIds : <<"resource-allocated", r, t>> \in facts)

\* A and B both require r1: A holds it, B is ready and validated and waits
C16_Witness ==
    /\ Required("A") = {"r1"}
    /\ Required("B") = {"r1"}
    /\ <<"resource-allocated", "r1", "A">> \in facts
    /\ <<"task-ready", "B">> \in facts
    /\ <<"input-validated", "B">> \in facts

StatusEdges ==
    {<<PENDING, READY>>, <<READY, IN_PROGRESS>>,
     <<IN_PROGRESS, COMPLETED>>, <<IN_PROGRESS, FAILED>>}

\* the tasks the planning run holds before and after the step
PlannedTasks == DOMAIN working_state.tasks \cap DOMAIN working_state'.tasks

\* the execute_task steps of a plan for one task
StepsOf(p, t) == {i \in ExecutePositions(p) : p[i].task_id = t}

(***************************************************************************)
(* C19  Every status change the scheduler makes follows one of the edges   *)
(* pending to ready, ready to in_progress, in_progress to completed,       *)
(* in_progress to failed; a completed or failed task keeps its status and  *)
(* gets no further execute_task step.                                      *)
(***************************************************************************)
C19_StatusFollowsEdges ==
    [][\A t \in PlannedTasks :
          /\ working_state'.tasks[t].status # working_state.tasks[t].status
                => <<working_state.tasks[t].status,
                     working_state'.tasks[t].status>> \in StatusEdges
          /\ working_state.tasks[t].status \in {COMPLETED, FAILED}
                => /\ working_state'.tasks[t].status
                          = working_state.tasks[t].status
                   /\ StepsOf(plan', t) = StepsOf(plan, t)]_vars

(***************************************************************************)
(* C20  When a planning run ends, every pending goal task that depends on  *)
(* a task whose status is failed has the status blocked.                   *)
(***************************************************************************)
C20_FailedDependencyBlocks ==
    pc = "done" =>
        \A t \in Elems(goal_tasks) \cap DOMAIN state.tasks :
            (/\ state.tasks[t].status = PENDING
             /\ \E d \in Elems(state.tasks[t].dependencies)
                            \cap DOMAIN state.tasks :
                   state.tasks[d].status = FAILED)
                => working_state.tasks[t].status = BLOCKED

(***************************************************************************)
(* The scheduler's choice, its plan as a function of its arguments         *)
(***************************************************************************)
\* the goal-list positions whose task passes the readiness test
ReadyPositions(st, goals) == {i \in 1..Len(goals) : IsReady(st, goals[i])}

\* the first of them
FirstReadyPosition(st, goals) ==
    CHOOSE i \in ReadyPositions(st, goals) :
        \A j \in ReadyPositions(st, goals) : i <= j

\* the plan as a function of the state, the goal list and the budget
RECURSIVE PlanOf(_, _, _, _)
PlanOf(st, goals, iter, budget) ==
    IF ~(Len(st.completed_tasks) < Len(goals) /\ iter < budget)
    THEN <<>>
    ELSE IF ReadyPositions(st, goals) = {}
    THEN <<ErrorStep(st, goals)>>
    ELSE <<ExecuteStep(st, goals[FirstReadyPosition(st, goals)])>>
            \o PlanOf(SimulateExecution(st,
                            goals[FirstReadyPosition(st, goals)]),
                      goals, iter + 1, budget)

\* C23: each execute_task step is for the ready task that occurs first in
\* the goal list, and the returned plan is a function of the state and the
\* goal list alone, so two runs on equal arguments give the same steps
C23_FirstReadyInGoalOrder ==
    [][/\ (pc = "loop" /\ Len(plan') = Len(plan) + 1
                /\ IsExecute(plan'[Len(plan')]))
            => /\ ReadyPositions(working_state, goal_tasks) # {}
               /\ plan'[Len(plan')].task_id =
                    goal_tasks[FirstReadyPosition(working_state, goal_tasks)]
       /\ (pc' = "done")
            => plan' = PlanOf(state, goal_tasks', 0,
                              Cardinality(DOMAIN state.tasks) * 2)]_vars

\* a finished run whose first step had two ready tasks to choose from, the
\* first goal entry not being one of them
C23_Witness ==
    /\ pc = "done"
    /\ Cardinality(ReadyPositions(state, goal_tasks)) >= 2
    /\ 1 \notin ReadyPositions(state, goal_tasks)
    /\ Len(plan) >= 2
    /\ IsExecute(plan[1])
    /\ plan[1].task_id = goal_tasks[FirstReadyPosition(state, goal_tasks)]

(***************************************************************************)
(* Solvable planning problems                                              *)
(***************************************************************************)
\* task a depends on task b through at most n dependency entries
RECURSIVE DependsOnWithin(_, _, _, _)
DependsOnWithin(st, a, b, n) ==
    /\ n > 0
    /\ \/ InList(b, st.tasks[a].dependencies)
       \/ \E c \in Elems(st.tasks[a].dependencies) \cap DOMAIN st.tasks :
            DependsOnWithin(st, c, b, n - 1)

Acyclic(st) ==
    \A t \in DOMAIN st.tasks :
        ~DependsOnWithin(st, t, t, Cardinality(DOMAIN st.tasks))

Solvable(st, goals) ==
    /\ \A i, j \in 1..Len(goals) : i # j => goals[i] # goals[j]
    /\ Elems(goals) \subseteq DOMAIN st.tasks
    /\ \A t \in Elems(goals) :
        /\ st.tasks[t].status = PENDING
        /\ Elems(st.tasks[t].dependencies) \subseteq Elems(goals)
        /\ AllIn(st.tasks[t].required_resources, st.available_resources)
    /\ st.completed_tasks = <<>>
    /\ Acyclic(st)

\* the plan is one execute_task step per goal task and nothing else
OneStepPerGoal(p, goals) ==
    /\ ErrorPositions(p) = {}
    /\ Len(p) = Len(goals)
    /\ \A t \in Elems(goals) :
        Cardinality({i \in ExecutePositions(p) : p[i].task_id = t}) = 1

\* C27: distinct pending goal tasks, nothing completed, dependencies inside
\* the goal list and acyclic, required resources available: the returned
\* plan is exactly one execute_task step per goal task, without error step
C27_SolvableGoalsArePlanned ==
    (pc = "done" /\ Solvable(state, goal_tasks))
        => OneStepPerGoal(plan, goal_tasks)

\* a solvable run over three goals whose first goal entry has a dependency
C27_Witness ==
    /\ pc = "done"
    /\ Solvable(state, goal_tasks)
    /\ Len(goal_tasks) = 3
    /\ state.tasks[goal_tasks[1]].dependencies # <<>>
    /\ \E t \in TaskIds : state.tasks[t].required_resources # <<>>
    /\ Len(plan) = 3

(***************************************************************************)
(* The caller's state and the private copy                                 *)
(***************************************************************************)
\* C28: no step of _generate_plan changes the PlanningState it was given
\* (statuses, completed_tasks, current_time, available_resources): every
\* write goes to the private copy
C28_CallerStateUntouched == [][state' = state]_vars

\* a finished run that executed two tasks: the copy differs from the state
C28_Witness ==
    /\ pc = "done"
    /\ Cardinality(ExecutePositions(plan)) >= 2
    /\ working_state.completed_tasks # state.completed_tasks
    /\ working_state.current_time # state.current_time
    /\ \E t \in TaskIds : working_state.tasks[t].status # state.tasks[t].status

\* the ids the run appended to completed_tasks, in order
Appended ==
    SubSeq(working_state.completed_tasks, Len(state.completed_tasks) + 1,
           Len(working_state.completed_tasks))

\* C29: at every iteration each id the run appended to completed_tasks is a
\* goal id with status completed, is appended once, and has exactly one
\* execute_task step; every execute_task step is for an appended id
C29_AppendedOncePerGoal ==
    pc \in {"loop", "done"} =>
        /\ SubSeq(working_state.completed_tasks, 1,
                  Len(state.completed_tasks)) = state.completed_tasks
        /\ \A i \in 1..Len(Appended) :
            /\ InList(Appended[i], goal_tasks)
            /\ working_state.tasks[Appended[i]].status = COMPLETED
            /\ \A j \in 1..Len(Appended) : Appended[j] = Appended[i] => j = i
            /\ Cardinality({k \in ExecutePositions(plan) :
                                plan[k].task_id = Appended[i]}) = 1
        /\ \A k \in ExecutePositions(plan) : InList(plan[k].task_id, Appended)

\* a run that appended two ids over a goal list that repeats an id
C29_Witness ==
    /\ pc = "done"
    /\ Len(Appended) >= 2
    /\ \E i, j \in 1..Len(goal_tasks) : i # j /\ goal_tasks[i] = goal_tasks[j]

(***************************************************************************)
(* EnhancedPDDLPlanner._generate_plan, statement by statement              *)
(*                                                                         *)
(* The same run as PlanEnter .. PlanReturn with one step per statement of  *)
(* the loop body, so that the states between the statements are states of  *)
(* the model. pc names the statement reached.                              *)
(***************************************************************************)
\* the task of the execute_task step appended last
CurrentTask == plan[Len(plan)].task_id

\* lines 458-465: goal list, plan, private copy, iteration budget
StmtEnter ==
    /\ pc = "start"
    /\ goal_tasks' = IF goal_arg = <<>> THEN TaskOrder ELSE goal_arg[1]
    /\ plan' = <<>>
    /\ working_state' = state
    /\ max_iterations' = Cardinality(DOMAIN state.tasks) * 2
    /\ iteration' = 0
    /\ pc' = "while"
    /\ UNCHANGED <<state, goal_arg, valVars, execVars, domVars,
                   buildVars>>

\* line 467 false: return plan (line 502)
StmtReturn ==
    /\ pc = "while"
    /\ ~LoopCondition
    /\ pc' = "done"
    /\ UNCHANGED <<state, goal_arg, goal_tasks, working_state, plan,
                   iteration, max_iterations, valVars, execVars, domVars,
                   buildVars>>

\* lines 468-478: no ready task, error step, break
StmtError ==
    /\ pc = "while"
    /\ LoopCondition
    /\ FindReadyTasks(working_state, goal_tasks) = <<>>
    /\ plan' = Append(plan, ErrorStep(working_state, goal_tasks))
    /\ pc' = "done"
    /\ UNCHANGED <<state, goal_arg, goal_tasks, working_state, iteration,
                   max_iterations, valVars, execVars, domVars,
                   buildVars>>

\* lines 481-493: task_id = ready_tasks[0], plan.append of its step
StmtEmitStep ==
    /\ pc = "while"
    /\ LoopCondition
    /\ FindReadyTasks(working_state, goal_tasks) # <<>>
    /\ plan' = Append(plan, ExecuteStep(working_state,
                        FindReadyTasks(working_state, goal_tasks)[1]))
    /\ pc' = "emitted"
    /\ UNCHANGED <<state, goal_arg, goal_tasks, working_state, iteration,
                   max_iterations, valVars, execVars, domVars,
                   buildVars>>

\* line 496: task.status = TaskStatus.COMPLETED
StmtMarkCompleted ==
    /\ pc = "emitted"
    /\ working_state' =
        [working_state EXCEPT !.tasks[CurrentTask].status = COMPLETED]
    /\ pc' = "marked"
    /\ UNCHANGED <<state, goal_arg, goal_tasks, plan, iteration,
                   max_iterations, valVars, execVars, domVars,
                   buildVars>>

\* line 497: working_state.completed_tasks.append(task_id)
StmtAppendCompleted ==
    /\ pc = "marked"
    /\ working_state' =
        [working_state EXCEPT !.completed_tasks = Append(@, CurrentTask)]
    /\ pc' = "appended"
    /\ UNCHANGED <<state, goal_arg, goal_tasks, plan, iteration,
                   max_iterations, valVars, execVars, domVars,
                   buildVars>>

\* line 498: working_state.current_time += task.duration_hours
StmtAdvanceClock ==
    /\ pc = "appended"
    /\ working_state' =
        [working_state EXCEPT !.current_time =
            @ + working_state.tasks[CurrentTask].duration_hours]
    /\ pc' = "advanced"
    /\ UNCHANGED <<state, goal_arg, goal_tasks, plan, iteration,
                   max_iterations, valVars, execVars, domVars,
                   buildVars>>

\* line 500: iteration += 1, back to the while test
StmtIncrement ==
    /\ pc = "advanced"
    /\ iteration' = iteration + 1
    /\ pc' = "while"
    /\ UNCHANGED <<state, goal_arg, goal_tasks, working_state, plan,
                   max_iterations, valVars, execVars, domVars,
                   buildVars>>

\* the calls of _generate_plan followed statement by statement: one-hour
\* tasks, the clock at 0
InitStatements ==
    /\ \E deps \in DepChoices, req \in ReqChoices, st \in StatusChoices,
          avail \in AvailChoices, completed \in {<<>>, <<"A">>} :
            state = MkState(
                [t \in TaskIds |-> MkTask(st[t], deps[t], req[t], 1)],
                completed, 0, avail)
    /\ goal_arg \in {<<g>> : g \in GoalChoices} \cup {<<>>}
    /\ goal_tasks = <<>>
    /\ working_state = EmptyState
    /\ plan = <<>>
    /\ iteration = 0
    /\ max_iterations = 0
    /\ pc = "start"
    /\ ValIdle
    /\ ExecIdle
    /\ DomIdle
    /\ BuildIdle

NextStatements ==
    \/ StmtEnter
    \/ StmtReturn
    \/ StmtError
    \/ StmtEmitStep
    \/ StmtMarkCompleted
    \/ StmtAppendCompleted
    \/ StmtAdvanceClock
    \/ StmtIncrement

SpecStatements == InitStatements /\ [][NextStatements]_vars

\* the required resources of the task whose step was appended last
RequiredNow == Elems(working_state.tasks[CurrentTask].required_resources)

\* C24: once the execute_task step for T is in the plan, T's required
\* resources are out of the available set until T is marked completed, are
\* back in it afterwards, and the available set of a finished run is the one
\* the run started with
C24_StepReservesResources ==
    /\ pc = "emitted"
        => RequiredNow \cap Elems(working_state.available_resources) = {}
    /\ pc \in {"marked", "appended", "advanced"}
        => RequiredNow \subseteq Elems(working_state.available_resources)
    /\ pc = "done"
        => working_state.available_resources = state.available_resources

(***************************************************************************)
(* The :init list against the planning state it is emitted for             *)
(***************************************************************************)
\* how often x occurs in a list
Count(lst, x) == Cardinality({k \in 1..Len(lst) : lst[k] = x})

\* the positions of the :init list that hold a line of one predicate
Lines(name) == {k \in 1..Len(problem.init) : problem.init[k][1] = name}

\* the entries of a list field over all tasks, as (task, position) pairs
Entries(field) ==
    UNION {{<<t, k>> : k \in 1..Len(state.tasks[t][field])} :
            t \in DOMAIN state.tasks}

\* each line of a per-task predicate stands for an entry of that task's
\* list, each entry has as many lines as it occurs in the list, and there
\* are as many lines as entries
OneLinePerEntry(name, field) ==
    /\ \A k \in Lines(name) :
        /\ problem.init[k][2] \in DOMAIN state.tasks
        /\ InList(problem.init[k][3],
                  state.tasks[problem.init[k][2]][field])
    /\ \A t \in DOMAIN state.tasks :
        \A x \in Elems(state.tasks[t][field]) :
            Count(problem.init, <<name, t, x>>)
                = Count(state.tasks[t][field], x)
    /\ Cardinality(Lines(name)) = Cardinality(Entries(field))

\* C21: the :init of the emitted problem holds one depends-on line per
\* dependency entry of each task and no other, one requires-resource line
\* per required-resource entry, and one resource-available line per id of
\* available_resources
C21_OnePredicatePerEntry ==
    /\ OneLinePerEntry("depends-on", "dependencies")
    /\ OneLinePerEntry("requires-resource", "required_resources")
    /\ \A k \in Lines("resource-available") :
          InList(problem.init[k][2], state.available_resources)
    /\ \A r \in Elems(state.available_resources) :
          Count(problem.init, <<"resource-available", r>>)
              = Count(state.available_resources, r)
    /\ Cardinality(Lines("resource-available"))
          = Len(state.available_resources)

\* a problem emitted for a state with a repeated dependency entry, a task
\* with two required resources and one available resource
C21_Witness ==
    /\ \E t \in TaskIds : Count(state.tasks[t].dependencies, "A") = 2
    /\ \E t \in TaskIds : Len(state.tasks[t].required_resources) = 2
    /\ Len(state.available_resources) = 1
    /\ Cardinality(Lines("depends-on")) = 3

(***************************************************************************)
(* A plan replayed in the emitted domain                                   *)
(***************************************************************************)
\* one domain action on task t: applied where its precondition holds,
\* otherwise the replay has failed
Apply(Pre(_, _, _), Effect(_, _, _), p, r, t) ==
    IF r.ok /\ Pre(p, r.facts, t)
    THEN [ok |-> TRUE, facts |-> Effect(p, r.facts, t)]
    ELSE [ok |-> FALSE, facts |-> r.facts]

\* the five actions that take one task from pending to completed
CompleteInDomain(p, r, t) ==
    Apply(CompleteTaskPre, CompleteTaskEffect, p,
      Apply(ValidateOutputsPre, ValidateOutputsEffect, p,
        Apply(StartTaskPre, StartTaskEffect, p,
          Apply(ValidateInputsPre, ValidateInputsEffect, p,
            Apply(MakeTaskReadyPre, MakeTaskReadyEffect, p, r, t),
            t), t), t), t)

\* the execute_task steps of a plan, completed in the domain in plan order
RECURSIVE Replay(_, _, _)
Replay(p, r, steps) ==
    IF steps = <<>> THEN r
    ELSE Replay(p,
                IF IsExecute(Head(steps))
                THEN CompleteInDomain(p, r, Head(steps).task_id)
                ELSE r,
                Tail(steps))

\* the problem emitted for the planner's arguments
EmittedProblem ==
    generate_problem(state, DomainContracts, ResourceIds, <<goal_tasks>>)

\* C26: when every task is pending and the returned plan has an
\* execute_task step for every goal task, completing the tasks in plan order
\* with the domain's actions, from the :init of the emitted problem, reaches
\* the goal of the emitted problem
C26_PlanIsDomainPath ==
    (/\ pc = "done"
     /\ \A t \in TaskIds : state.tasks[t].status = PENDING
     /\ \A t \in Elems(goal_tasks) :
            \E i \in ExecutePositions(plan) : plan[i].task_id = t)
        => \E r \in {Replay(EmittedProblem,
                            [ok |-> TRUE,
                             facts |-> Elems(EmittedProblem.init)],
                            plan)} :
              /\ r.ok
              /\ EmittedProblem.goal \subseteq r.facts

(***************************************************************************)
(* PlanningState (pddl_classes.py): construction, model_post_init, the     *)
(* copy of _generate_plan. state.resources is the dict of Resource models  *)
(* in insertion order, each with its id and its available flag. Before     *)
(* model_post_init the available_resources field holds the constructor's   *)
(* argument, <<>> for None and <<list>> for a list; afterwards it is a     *)
(* list.                                                                   *)
(***************************************************************************)
\* [r.id for r in self.resources.values() if r.available]
AvailableIds(resources) ==
    LET flagged == SelectSeq(resources, LAMBDA r : r.available)
    IN  [i \in 1..Len(flagged) |-> flagged[i].id]

\* model_post_init: the list is computed only where the field is None
model_post_init(self) ==
    [self EXCEPT !.available_resources =
        IF @ = <<>> THEN AvailableIds(self.resources) ELSE @[1]]

\* variant: the copy leaves available_resources out, model_post_init
\* computes it again
CopyOf_Recomputed(st) ==
    model_post_init([st EXCEPT !.available_resources = <<>>])

\* PlanningState(**state.model_dump()): every field of the dump is passed,
\* available_resources as the list it holds
CopyOf(st) ==
    model_post_init([st EXCEPT !.available_resources = <<@>>])

\* the constructor's arguments: required resources, statuses, the flags of
\* r1 and r2, and available_resources None, [] or ['r1']
ConstructorArguments ==
    {[tasks |-> [t \in TaskIds |-> MkTask(st[t], <<>>, req[t], 1)],
      resources |-> <<[id |-> "r1", available |-> f1],
                      [id |-> "r2", available |-> f2]>>,
      completed_tasks |-> <<>>,
      current_time |-> 0,
      available_resources |-> arg] :
        st \in StatusChoices, req \in ReqChoices, f1 \in BOOLEAN,
        f2 \in BOOLEAN, arg \in {<<>>, <<<<>>>>, <<<<"r1">>>>}}

\* PlanningState(...): the fields are set, then model_post_init runs
ConstructState ==
    /\ pc = "fields"
    /\ state' = model_post_init(state)
    /\ pc' = "built"
    /\ UNCHANGED <<goal_arg, goal_tasks, working_state, plan, iteration,
                   max_iterations, valVars, execVars, domVars,
                   buildVars>>

\* an assignment to the available attribute of one Resource of the state
SetResourceAvailable ==
    /\ pc = "built"
    /\ \E i \in 1..Len(state.resources), flag \in BOOLEAN :
          state' = [state EXCEPT !.resources[i].available = flag]
    /\ UNCHANGED <<goal_arg, goal_tasks, working_state, plan, iteration,
                   max_iterations, pc, valVars, execVars, domVars,
                   buildVars>>

\* the private copy of _generate_plan
CopyState ==
    /\ pc = "built"
    /\ working_state' = CopyOf(state)
    /\ UNCHANGED <<state, goal_arg, goal_tasks, plan, iteration,
                   max_iterations, pc, valVars, execVars, domVars,
                   buildVars>>

InitConstruct ==
    /\ state \in ConstructorArguments
    /\ goal_arg = <<>>
    /\ goal_tasks = <<>>
    /\ working_state = EmptyState
    /\ plan = <<>>
    /\ iteration = 0
    /\ max_iterations = 0
    /\ pc = "fields"
    /\ ValIdle
    /\ ExecIdle
    /\ DomIdle
    /\ BuildIdle

NextConstruct == ConstructState \/ SetResourceAvailable \/ CopyState

SpecConstruct == InitConstruct /\ [][NextConstruct]_vars

\* every assignment of flags to the resources of a state
FlagChoices(st) ==
    {[i \in 1..Len(st.resources) |->
        [id |-> st.resources[i].id, available |-> f[i]]] :
            f \in [1..Len(st.resources) -> BOOLEAN]}

\* C25: a PlanningState built without available_resources gets the ids of
\* the resources whose flag is true; a later change of a flag does not
\* change the list, the copy of _generate_plan carries the list over as it
\* is, and the readiness test of a task is the same whatever the flags are
C25_AvailableListComputedOnce ==
    [][/\ (pc = "fields" /\ pc' = "built"
                /\ state.available_resources = <<>>)
            => state'.available_resources = AvailableIds(state.resources)
       /\ (pc = "built" /\ state'.resources # state.resources)
            => state'.available_resources = state.available_resources
       /\ (pc = "built" /\ working_state' # working_state)
            => /\ working_state'.available_resources
                    = state.available_resources
               /\ \A t \in TaskIds, flags \in FlagChoices(working_state') :
                    IsReady([working_state' EXCEPT !.resources = flags], t)
                        = IsReady(working_state', t)]_vars

\* a copy whose list names r1 although r1's flag is false, with a task that
\* requires r1 and is ready
C25_Witness ==
    /\ pc = "built"
    /\ DOMAIN working_state.tasks # {}
    /\ ~working_state.resources[1].available
    /\ working_state.available_resources = <<"r1", "r2">>
    /\ \E t \in TaskIds :
        /\ InList("r1", working_state.tasks[t].required_resources)
        /\ IsReady(working_state, t)

(***************************************************************************)
(* The construction paths of a Task: TaskBuilder (task_builder.py) and     *)
(* EnhancedPDDLPlanner._create_planning_state_from_parsed_data (main.py).  *)
(* A Task is kept as its id, its duration_hours and the task_id of its     *)
(* contract; a key that may be absent from a dict holds <<>> when absent   *)
(* and <<value>> when present.                                             *)
(***************************************************************************)
\* uuid.uuid4().hex[:8]
UuidChoices == {"1a2b3c4d", "5e6f7a8b"}

\* Task(...) (pydantic): id, duration_hours and contract.task_id are
\* required, duration_hours is Field(gt=0); a ValidationError otherwise
NewTask(id, duration_hours, contract) ==
    IF \/ id = <<>>
       \/ duration_hours = <<>>
       \/ contract = <<>>
    THEN Raised
    ELSE IF contract[1].task_id = <<>> \/ duration_hours[1] <= 0
    THEN Raised
    ELSE Returned([id |-> id[1],
                   duration_hours |-> duration_hours[1],
                   contract |-> [task_id |-> contract[1].task_id[1]]])

\* the contract dict after lines 168-226: task_id filled in where it is
\* absent or empty, a minimal contract where there is none
DescribedContract(task_data, uuid) ==
    LET default == <<IF task_data.id # <<>> THEN task_data.id[1]
                     ELSE "task_" \o uuid>>
    IN  IF task_data.contract = <<>> THEN [task_id |-> default]
        ELSE IF task_data.contract[1].task_id \in {<<>>, <<"">>}
        THEN [task_id |-> default]
        ELSE task_data.contract[1]

\* create_task_from_description: reply is <<>> where the model's answer
\* holds no JSON object, else the parsed object; every exception becomes a
\* ValueError
create_task_from_description(reply, uuid1, uuid2) ==
    IF reply = <<>> THEN Raised
    ELSE NewTask(IF reply[1].id \in {<<>>, <<"">>}
                 THEN <<"task_" \o uuid2>> ELSE reply[1].id,
                 reply[1].duration_hours,
                 <<DescribedContract(reply[1], uuid1)>>)

\* the predefined templates
TaskTemplates ==
    [data_processing |->
        [id |-> "data_processing_template", duration_hours |-> 1,
         contract |-> [task_id |-> "data_processing_template"]],
     api_call |->
        [id |-> "api_call_template", duration_hours |-> 1,
         contract |-> [task_id |-> "api_call_template"]]]

\* create_task_from_template
create_task_from_template(template_id, uuid) ==
    IF template_id \notin DOMAIN TaskTemplates THEN Raised
    ELSE NewTask(<<template_id \o "_" \o uuid>>,
                 <<TaskTemplates[template_id].duration_hours>>,
                 <<[task_id |-> <<template_id \o "_" \o uuid>>]>>)

\* create_task_interactive: the duration typed in, 1 where int() raises
create_task_interactive(duration_input, uuid) ==
    NewTask(<<"task_" \o uuid>>,
            <<IF PyInt(duration_input).raised THEN 1
              ELSE PyInt(duration_input).value>>,
            <<[task_id |-> <<"task_" \o uuid>>]>>)

\* the Task of one entry of parsed_data["tasks"]: task_data["id"] and
\* task_data["duration_hours"] raise KeyError where the key is absent
TaskFromParsedData(task_data) ==
    NewTask(task_data.id, task_data.duration_hours,
            <<[task_id |-> task_data.id]>>)

\* modify_task: task.duration_hours = int(duration_str), kept where the
\* answer is empty or int() raises
modify_task(task, duration_str) ==
    IF duration_str = "" \/ PyInt(duration_str).raised THEN task
    ELSE [task EXCEPT !.duration_hours = PyInt(duration_str).value]

\* the dicts a model reply or a parsed request can hold for one task
TaskDataChoices ==
    [id : {<<>>, <<"">>, <<"t1">>},
     duration_hours : {<<>>} \cup {<<n>> : n \in 0..MaxDuration},
     contract : {<<>>} \cup {<<[task_id |-> tid]>> :
                    tid \in {<<>>, <<"">>, <<"t1">>, <<"t2">>}}]

\* what is typed at a duration prompt
DurationInputs == {"", "0", "1", "2", "-1", "soon"}

\* a call that builds a Task stores it; a call that raises leaves the last
\* one in place
Stored(result) == IF result.raised THEN btask ELSE <<result.value>>

CreateTaskFromDescription ==
    /\ \E reply \in {<<>>} \cup {<<td>> : td \in TaskDataChoices},
          uuid1, uuid2 \in UuidChoices :
          \E result \in {create_task_from_description(reply, uuid1, uuid2)} :
            /\ btask' = Stored(result)
            /\ bresult' = [call |-> "create_task_from_description",
                           raised |-> result.raised]
    /\ UNCHANGED <<planVars, valVars, execVars, domVars>>

CreateTaskFromTemplate ==
    /\ \E template_id \in {"data_processing", "api_call", "report"},
          uuid \in UuidChoices :
          \E result \in {create_task_from_template(template_id, uuid)} :
            /\ btask' = Stored(result)
            /\ bresult' = [call |-> "create_task_from_template",
                           raised |-> result.raised]
    /\ UNCHANGED <<planVars, valVars, execVars, domVars>>

CreateTaskInteractive ==
    /\ \E duration_input \in DurationInputs, uuid \in UuidChoices :
          \E result \in {create_task_interactive(duration_input, uuid)} :
            /\ btask' = Stored(result)
            /\ bresult' = [call |-> "create_task_interactive",
                           raised |-> result.raised]
    /\ UNCHANGED <<planVars, valVars, execVars, domVars>>

CreateTaskFromParsedData ==
    /\ \E task_data \in TaskDataChoices :
          \E result \in {TaskFromParsedData(task_data)} :
            /\ btask' = Stored(result)
            /\ bresult' = [call |-> "_create_planning_state_from_parsed_data",
                           raised |-> result.raised]
    /\ UNCHANGED <<planVars, valVars, execVars, domVars>>

ModifyTask ==
    /\ btask # <<>>
    /\ \E duration_str \in DurationInputs :
          btask' = <<modify_task(btask[1], duration_str)>>
    /\ bresult' = [call |-> "modify_task", raised |-> FALSE]
    /\ UNCHANGED <<planVars, valVars, execVars, domVars>>

InitBuild ==
    /\ PlanIdle
    /\ ValIdle
    /\ ExecIdle
    /\ DomIdle
    /\ BuildIdle

NextBuild ==
    \/ CreateTaskFromDescription
    \/ CreateTaskFromTemplate
    \/ CreateTaskInteractive
    \/ CreateTaskFromParsedData
    \/ ModifyTask

SpecBuild == InitBuild /\ [][NextBuild]_vars

\* C22: every Task a construction path returned, and every Task after
\* modify_task, has contract.task_id equal to its id and duration_hours
\* above 0
C22_BuiltTasksAreConsistent ==
    btask # <<>> =>
        /\ btask[1].contract.task_id = btask[1].id
        /\ btask[1].duration_hours > 0

(***************************************************************************)
(* Vocabulary of the BlackBoxExecutor claim                                *)
(***************************************************************************)
\* the step is a call of BlackBoxExecutor.execute_task
IsBlackBoxCall ==
    /\ Len(eresult') = Len(eresult) + 1
    /\ eresult'[Len(eresult')].by = "BlackBoxExecutor"

\* the trace entries the step appended
NewTrace ==
    SubSeq(context'.execution_trace, Len(context.execution_trace) + 1,
           Len(context'.execution_trace))

\* C30: a call of BlackBoxExecutor.execute_task that returns, returns
\* outputs for which validate_task_outputs is empty, leaves them in
\* context.outputs and ends the trace with the 'completed successfully'
\* entry; a call that raises leaves context.outputs as it was and has added
\* at least one entry to context.errors; the call appends the 'Starting
\* task' entry only if the inputs it was given passed validation
C30_ReturnsValidatedOrRaises ==
    [][IsBlackBoxCall =>
        /\ ~eresult'[Len(eresult')].raised =>
            /\ \E output_errors \in
                    {validate_task_outputs(etask,
                                           eresult'[Len(eresult')].value)} :
                  ~output_errors.raised /\ output_errors.value = <<>>
            /\ context'.outputs = eresult'[Len(eresult')].value
            /\ NewTrace # <<>>
            /\ NewTrace[Len(NewTrace)] =
                  "Task " \o etask.id
                      \o " completed successfully with validated outputs"
        /\ eresult'[Len(eresult')].raised =>
            /\ context'.outputs = context.outputs
            /\ Len(context'.errors) >= Len(context.errors) + 1
            /\ SubSeq(context'.errors, 1, Len(context.errors))
                  = context.errors
        /\ (\E i \in 1..Len(NewTrace) :
                StartsWith(NewTrace[i], "Starting task "))
            => \E input_errors \in
                    {validate_task_inputs(etask, context'.inputs)} :
                  ~input_errors.raised /\ input_errors.value = <<>>]_vars

\* a call that returned validated outputs after an earlier call on the same
\* context had raised on an output violation
C30_Witness ==
    /\ Len(eresult) = 2
    /\ eresult[1].by = "BlackBoxExecutor"
    /\ eresult[1].raised
    /\ StartsWith(eresult[1].value, "Output validation failed")
    /\ eresult[2].by = "BlackBoxExecutor"
    /\ ~eresult[2].raised
    /\ context.outputs = eresult[2].value
    /\ context.outputs # EmptyDict
    /\ Len(context.errors) >= 2

====
